---- MODULE Spec2Model ----
(***************************************************************************)
(* A model of the tracing layer of @astrot1988/otlp: the configuration     *)
(* store, the tracer handles (OTLPLazy of lazy/otlp-lazy.ts, OTLPLazy of   *)
(* lazy/index, the eager OTLP class, OTLPFull) and the wrappers and        *)
(* decorators built on them.  The tracing SDK is external: the model       *)
(* records every call made on it, in order, and lets any of those calls    *)
(* throw.                                                                  *)
(***************************************************************************)
EXTENDS Naturals, Sequences, FiniteSets

\* ---------------------------------------------------------------- bounds
\* Spans the SDK hands out in one behaviour.
MaxSpans == 2
\* Headers objects created in one behaviour.
MaxObjs == 2
MaxMetrics == 2
MaxCount == 3
MaxInflight == 2
\* The shortest of the nearly full metrics lists a behaviour starts from.
NearFull == 998

\* ---------------------------------------------------------------- values
\* The optional message argument left out.
Undef == "undefined"
\* Messages carried by thrown errors and passed to endSpan.
Messages == {"boom", ""}
\* `message || 'Error'`: undefined and the empty string are falsy.
Truthy(m) == m \notin {Undef, ""}

NoExc == [kind |-> "none", msg |-> Undef]
SdkExc == [kind |-> "SdkError", msg |-> "sdk"]
TypeErr == [kind |-> "TypeError", msg |-> "cannot read properties of null"]
JsonErr == [kind |-> "TypeError", msg |-> "circular structure"]
TimeoutErr == [kind |-> "Timeout", msg |-> "timed out"]
CallbackExc == [kind |-> "CallbackError", msg |-> "callback"]
\* What a unit of work may throw: an Error, null, or a string.
Thrown == {[kind |-> "Error", msg |-> m] : m \in Messages}
            \cup {[kind |-> "null", msg |-> Undef], [kind |-> "string", msg |-> Undef]}
\* `error instanceof Error`
InstanceOfError(e) == e.kind \in {"Error", "SdkError", "TypeError", "Timeout", "CallbackError"}

\* The SDK calls a handler can make, any of which may throw.
SdkOps == {"init", "startSpan", "setStatus", "setAttributes", "addEvent",
           "recordException", "end"}
\* The calls each tracer method can reach; a handler runs against any subset
\* of them throwing.
StartOps == {"init", "startSpan"}
EndOps == {"setStatus", "setAttributes", "recordException", "end"}

\* One recorded SDK call (or the wrapped work being invoked): the span it was
\* made on, the status code and message of a setStatus, whether it returned.
Ev(e, s, c, m, ok) == [ev |-> e, span |-> s, code |-> c, msg |-> m, ok |-> ok]

\* ---------------------------------------------------------------- state
VARIABLES
  cfg,      \* ConfigManager's store: enabled, traceOnErrorOnly
  variant,  \* the class of the tracer handle under test
  h,        \* that handle's fields
  nspans,   \* spans the SDK has handed out
  last,     \* the last handler that ran: its inputs, SDK calls, outcome
  wrapper,  \* the wrapper or decorator under test ("none": the handle is driven directly)
  env,      \* window.SETTINGS and process.env, as far as the code reads them
  objs,     \* the headers objects there are, by reference
  held,     \* what callers hold: a getConfig() result, startTimer() stop functions
  mc,       \* MetricsCollector's fields
  inflight  \* the asynchronous calls suspended at an await, oldest first

vars == <<cfg, variant, h, nspans, last, wrapper, env, objs, held, mc, inflight>>

\* No headers object exists, the callers hold nothing, the collector is empty.
NoObjs == <<>>
\* No asynchronous call is suspended.
NoTasks == <<>>
NoHeld == [taken |-> FALSE, snapshot |-> Undef, stops |-> {}]

Variants == {"OTLPLazy", "LazyIndex", "OTLP", "OTLPFull"}

\* The service names a configuration can carry; the first is ConfigManager's
\* default.
ServiceNames == {"unknown-service", "svc"}
\* The fields of the Configuration Store the model follows.
Configs == [enabled : BOOLEAN, traceOnErrorOnly : BOOLEAN, serviceName : ServiceNames,
            enableAutoInstrumentation : BOOLEAN]

\* A handle's fields.  enabled and traceOnlyErrors are OTLP's own config
\* (otlp.ts keeps it on the instance); pending is OTLP's un-awaited
\* initialize(); initFailed remembers that the last attempt to build the
\* provider threw; builtFrom is the service name the provider in use was built
\* with; capture is the configuration an initialization in progress has read.
NoCapture == [enabled |-> FALSE, traceOnErrorOnly |-> FALSE,
              serviceName |-> "unknown-service", enableAutoInstrumentation |-> FALSE]
NoHandle == [made |-> FALSE, initialized |-> FALSE, tracer |-> FALSE, currentSpan |-> 0,
             enabled |-> FALSE, traceOnlyErrors |-> FALSE, pending |-> FALSE,
             initFailed |-> FALSE, builtFrom |-> Undef, capture |-> NoCapture,
             autoInstrumentationEnabled |-> FALSE]

\* The running handler: the handle, the spans handed out, the calls so far,
\* and the exception in flight (NoExc when none).
World(hh, n) == [h |-> hh, n |-> n, log |-> <<>>, exc |-> NoExc]
Raised(w) == w.exc.kind # "none"
Call(w, e) == [w EXCEPT !.log = Append(@, e)]

\* What the wrapped work does when it is invoked: it returns a value or throws.
\* "circular" is a value JSON.stringify throws on.
Values == {"value", "circular"}
Work == {[k |-> "ret", v |-> v, e |-> NoExc] : v \in Values}
          \cup {[k |-> "throw", v |-> Undef, e |-> e] : e \in Thrown}
NoWork == [k |-> "none", v |-> Undef, e |-> NoExc]
\* An optional user callback: not given, returning, or throwing.
Callbacks == {"none", "returns", "throws"}
\* The options of a wrapper call, with the values they have when left out;
\* condition, errorFilter and shouldTrace hold what the callback returns,
\* inner is the outcome of the decorated method the work calls (if it does),
\* thrown the tracer steps that throw when lazy-trace.ts calls them, and
\* timedOut says that the timeout's timer fires before the work settles.
NoOpts == [includeResult |-> FALSE, onSuccess |-> "none", onError |-> "none",
           condition |-> TRUE, timedOut |-> FALSE, errorFilter |-> TRUE,
           shouldTrace |-> TRUE, inner |-> "none", traceOnlyOnError |-> FALSE,
           thrown |-> {}]
NoEnv == [otelEndpoint |-> FALSE, tracingEnv |-> FALSE]

\* MetricsCollector as constructed: no metric, no counter, gauge or timer.
NoMetrics == [metrics |-> <<>>, counters |-> [n \in {} |-> 0], gauges |-> [n \in {} |-> 0],
              timers |-> {}]

\* ---------------------------------------------------------------- SDK
\* tracer.startSpan(name, {attributes}): a new span, or a throw.
SdkStartSpan(w, fail) ==
  IF "startSpan" \in fail
  THEN [Call(w, Ev("startSpan", 0, 0, Undef, FALSE)) EXCEPT !.exc = SdkExc]
  ELSE [Call(w, Ev("startSpan", w.n + 1, 0, Undef, TRUE)) EXCEPT
          !.n = w.n + 1, !.h.currentSpan = w.n + 1]

\* A call on the held span: span.setStatus / setAttributes / addEvent /
\* recordException / end.
SdkSpanCall(w, op, code, msg, fail) ==
  IF op \in fail
  THEN [Call(w, Ev(op, w.h.currentSpan, code, msg, FALSE)) EXCEPT !.exc = SdkExc]
  ELSE Call(w, Ev(op, w.h.currentSpan, code, msg, TRUE))

\* A catch block that swallows the exception.
Swallow(w) == [w EXCEPT !.exc = NoExc]

\* ---------------------------------------------------------------- OTLPLazy (lazy/otlp-lazy.ts)
\* A provider construction whose failure is remembered as an initialization.
BuildProvider_FailureSticks(w, c, fail) ==
  [Call(w, Ev("provider", 0, 0, c.serviceName, "init" \notin fail)) EXCEPT
     !.h.tracer = ("init" \notin fail), !.h.initialized = TRUE,
     !.h.initFailed = ("init" \in fail), !.h.builtFrom = c.serviceName]

\* ensureInitialized past its dynamic imports, with the configuration c it read
\* before them: the provider is built and registered, or the attempt throws and
\* is swallowed.
BuildProvider(w, c, fail) ==
  IF "init" \in fail
  THEN [Call(w, Ev("provider", 0, 0, c.serviceName, FALSE)) EXCEPT !.h.initFailed = TRUE]
  ELSE [Call(w, Ev("provider", 0, 0, c.serviceName, TRUE)) EXCEPT
          !.h.tracer = TRUE, !.h.initialized = TRUE, !.h.initFailed = FALSE,
          !.h.builtFrom = c.serviceName,
          !.h.autoInstrumentationEnabled = (@ \/ c.enableAutoInstrumentation)]

\* An ensureInitialized that lost its first line, `if (this.initialized) return`.
OTLPLazy_ensureInitialized_NoInitializedGuard(w, c, fail) ==
  IF ~c.enabled THEN w ELSE BuildProvider(w, c, fail)

OTLPLazy_ensureInitialized(w, c, fail) ==
  IF w.h.initialized THEN w
  ELSE IF ~c.enabled THEN w
  ELSE BuildProvider(w, c, fail)

\* A startSpan that lost its first guard, `if (!config.enabled) return`.
OTLPLazy_startSpan_NoEnabledGuard(w, c, isError, fail) ==
  IF c.traceOnErrorOnly /\ ~isError THEN w
  ELSE LET w1 == OTLPLazy_ensureInitialized(w, c, fail)
       IN  IF w1.h.tracer THEN Swallow(SdkStartSpan(w1, fail)) ELSE w1

\* A startSpan that ends the span it holds before it starts the next one.
OTLPLazy_startSpan_EndsHeld(w, c, isError, fail) ==
  IF ~c.enabled THEN w
  ELSE IF c.traceOnErrorOnly /\ ~isError THEN w
  ELSE LET w1 == OTLPLazy_ensureInitialized(w, c, fail)
           w2 == IF w1.h.currentSpan # 0 THEN SdkSpanCall(w1, "end", 0, Undef, {}) ELSE w1
       IN  IF w2.h.tracer THEN Swallow(SdkStartSpan(w2, fail)) ELSE w2

OTLPLazy_startSpan(w, c, isError, fail) ==
  IF ~c.enabled THEN w
  ELSE IF c.traceOnErrorOnly /\ ~isError THEN w
  ELSE LET w1 == OTLPLazy_ensureInitialized(w, c, fail)
       IN  IF w1.h.tracer THEN Swallow(SdkStartSpan(w1, fail)) ELSE w1

\* startSpan past its guards on an uninitialized handle, suspended at the first
\* await of ensureInitialized, which has read the configuration c.
OTLPLazy_startSpan_Awaiting(hh, c) == [hh EXCEPT !.pending = TRUE, !.capture = c]

\* The same call resumed: the provider is built from the configuration read
\* before the awaits, then the span is started.
OTLPLazy_startSpan_Resumed(w, fail) ==
  LET w1 == BuildProvider([w EXCEPT !.h.pending = FALSE, !.h.capture = NoCapture],
                          w.h.capture, fail)
  IN  IF w1.h.tracer THEN Swallow(SdkStartSpan(w1, fail)) ELSE w1

\* handleGlobalError(type, error), reached from the window / process error
\* listeners and from the replaced console.error; c is the store as it is
\* after the handler's own setConfig. The span is a local of the handler: the
\* handle's currentSpan is not touched, and no SDK call is guarded.
OTLPLazy_handleGlobalError(w, c, message, fail) ==
  LET w1 == OTLPLazy_ensureInitialized(w, c, fail)
      s  == w1.n + 1
  IN  IF ~w1.h.tracer THEN w1
      ELSE IF "startSpan" \in fail
           THEN [Call(w1, Ev("startSpan", 0, 0, Undef, FALSE)) EXCEPT !.exc = SdkExc]
           ELSE Call(Call([Call(w1, Ev("startSpan", s, 0, Undef, TRUE)) EXCEPT !.n = s],
                          Ev("setStatus", s, 2,
                             IF Truthy(message) THEN message ELSE "Error", TRUE)),
                     Ev("end", s, 0, Undef, TRUE))

\* reset(): back to uninitialized; a held span is dropped, not ended.
OTLPLazy_reset(hh) == [hh EXCEPT !.initialized = FALSE, !.currentSpan = 0, !.tracer = FALSE]

\* configure(config), past its setConfig.
OTLPLazy_configure(hh) == IF hh.initialized THEN OTLPLazy_reset(hh) ELSE hh

OTLPLazy_endSpan(w, success, message, fail) ==
  IF w.h.currentSpan = 0 THEN w
  ELSE LET w1 == IF success
                 THEN SdkSpanCall(w, "setStatus", 1, Undef, fail)
                 ELSE SdkSpanCall(w, "setStatus", 2,
                                  IF Truthy(message) THEN message ELSE "Error", fail)
           w2 == IF Raised(w1) THEN w1 ELSE SdkSpanCall(w1, "end", 0, Undef, fail)
       IN  [Swallow(w2) EXCEPT !.h.currentSpan = 0]

OTLPLazy_addAttribute(w, fail) ==
  IF w.h.currentSpan # 0 THEN Swallow(SdkSpanCall(w, "setAttributes", 0, Undef, fail)) ELSE w

OTLPLazy_addEvent(w, fail) ==
  IF w.h.currentSpan # 0 THEN Swallow(SdkSpanCall(w, "addEvent", 0, Undef, fail)) ELSE w

\* ---------------------------------------------------------------- OTLPLazy (lazy/index, in loader.ts)
LazyIndex_initialize(w, fail) ==
  IF w.h.initialized THEN w
  ELSE IF "init" \in fail
       THEN [Call(w, Ev("provider", 0, 0, Undef, FALSE)) EXCEPT
               !.h.initialized = FALSE, !.h.initFailed = TRUE]
       ELSE [Call(w, Ev("provider", 0, 0, Undef, TRUE)) EXCEPT
               !.h.tracer = TRUE, !.h.initialized = TRUE, !.h.initFailed = FALSE]

LazyIndex_startSpan(w, fail) ==
  LET w1 == LazyIndex_initialize(w, fail)
  IN  IF ~w1.h.tracer THEN w1 ELSE Swallow(SdkStartSpan(w1, fail))

LazyIndex_addAttribute(w, fail) ==
  IF w.h.currentSpan = 0 THEN w ELSE Swallow(SdkSpanCall(w, "setAttributes", 0, Undef, fail))

LazyIndex_addEvent(w, fail) ==
  IF w.h.currentSpan = 0 THEN w ELSE Swallow(SdkSpanCall(w, "addEvent", 0, Undef, fail))

LazyIndex_endSpan(w, success, message, fail) ==
  IF w.h.currentSpan = 0 THEN w
  ELSE LET w1 == IF ~success /\ Truthy(message)
                 THEN LET r == SdkSpanCall(w, "recordException", 0, message, fail)
                      IN  IF Raised(r) THEN r ELSE SdkSpanCall(r, "setStatus", 2, message, fail)
                 ELSE SdkSpanCall(w, "setStatus", 1, Undef, fail)
           w2 == IF Raised(w1) THEN w1 ELSE SdkSpanCall(w1, "end", 0, Undef, fail)
       IN  IF Raised(w2) THEN Swallow(w2) ELSE [w2 EXCEPT !.h.currentSpan = 0]

\* ---------------------------------------------------------------- OTLP (otlp.ts)
\* The constructor: the merged config is kept on the instance and, when enabled,
\* initialize() is started and left running (it is not awaited).
OTLP_constructor(enabled, traceOnlyErrors) ==
  [NoHandle EXCEPT !.made = TRUE, !.enabled = enabled,
                   !.traceOnlyErrors = traceOnlyErrors, !.pending = enabled]

\* initialize() past its first await.
OTLP_initialize(w, fail) ==
  IF w.h.initialized THEN [w EXCEPT !.h.pending = FALSE]
  ELSE IF "init" \in fail
       THEN [Call(w, Ev("provider", 0, 0, Undef, FALSE)) EXCEPT
               !.h.pending = FALSE, !.h.initFailed = TRUE]
       ELSE [Call(w, Ev("provider", 0, 0, Undef, TRUE)) EXCEPT
               !.h.tracer = TRUE, !.h.initialized = TRUE, !.h.pending = FALSE]

OTLP_shouldTrace(hh, isError) ==
  IF ~hh.enabled \/ ~hh.initialized \/ ~hh.tracer THEN FALSE
  ELSE IF hh.traceOnlyErrors /\ ~isError THEN FALSE
  ELSE TRUE

OTLP_startSpan(w, isError, fail) ==
  IF ~OTLP_shouldTrace(w.h, isError) THEN w ELSE SdkStartSpan(w, fail)

\* try { status } finally { end(); currentSpan = null }: the finally block runs
\* whatever the try block did, and an exception of its own replaces the first.
EndInFinally(w1, fail) ==
  LET w2 == SdkSpanCall(Swallow(w1), "end", 0, Undef, fail)
  IN  IF Raised(w2) THEN w2 ELSE [w2 EXCEPT !.h.currentSpan = 0, !.exc = w1.exc]

OTLP_endSpan(w, success, message, fail) ==
  IF w.h.currentSpan = 0 THEN w
  ELSE LET w1 == IF success
                 THEN LET r == SdkSpanCall(w, "setStatus", 1, Undef, fail)
                      IN  IF ~Raised(r) /\ Truthy(message)
                          THEN SdkSpanCall(r, "setAttributes", 0, message, fail)
                          ELSE r
                 ELSE SdkSpanCall(w, "setStatus", 2,
                                  IF Truthy(message) THEN message ELSE "Error", fail)
       IN  EndInFinally(w1, fail)

OTLP_addAttribute(w, fail) ==
  IF w.h.currentSpan # 0 THEN SdkSpanCall(w, "setAttributes", 0, Undef, fail) ELSE w

OTLP_recordError(w, fail) ==
  IF w.h.currentSpan # 0 THEN SdkSpanCall(w, "recordException", 0, Undef, fail) ELSE w

OTLP_addEvent(w, fail) ==
  IF w.h.currentSpan # 0 THEN SdkSpanCall(w, "addEvent", 0, Undef, fail) ELSE w

\* ---------------------------------------------------------------- OTLPFull (full/otlp-full.ts)
\* An initialize that builds the provider whatever the store says.
OTLPFull_initialize_IgnoresEnabled(w, c, fail) ==
  IF "init" \in fail
  THEN [Call(w, Ev("provider", 0, 0, Undef, FALSE)) EXCEPT
          !.h.initialized = FALSE, !.h.initFailed = TRUE]
  ELSE [Call(w, Ev("provider", 0, 0, Undef, TRUE)) EXCEPT
          !.h.tracer = TRUE, !.h.initialized = TRUE, !.h.initFailed = FALSE,
          !.h.builtFrom = c.serviceName]

OTLPFull_initialize(w, c, fail) ==
  IF ~c.enabled THEN w
  ELSE IF "init" \in fail
       THEN [Call(w, Ev("provider", 0, 0, Undef, FALSE)) EXCEPT
               !.h.initialized = FALSE, !.h.initFailed = TRUE]
       ELSE [Call(w, Ev("provider", 0, 0, Undef, TRUE)) EXCEPT
               !.h.tracer = TRUE, !.h.initialized = TRUE, !.h.initFailed = FALSE,
               !.h.builtFrom = c.serviceName]

OTLPFull_isEnabled(hh, c) == c.enabled /\ hh.initialized /\ hh.tracer
OTLPFull_isReady(hh) == hh.initialized /\ hh.tracer

OTLPFull_startSpan(w, c, onErrorOnly, fail) ==
  IF ~OTLPFull_isEnabled(w.h, c) THEN w
  ELSE IF c.traceOnErrorOnly /\ ~onErrorOnly THEN w
  ELSE SdkStartSpan(w, fail)

\* endSpan(success = true, error?): error is the Error's message, Undef when
\* no error was passed.
OTLPFull_endSpan(w, success, error, fail) ==
  IF w.h.currentSpan = 0 THEN w
  ELSE LET w1 == IF error # Undef
                 THEN LET r == SdkSpanCall(w, "recordException", 0, error, fail)
                      IN  IF Raised(r) THEN r ELSE SdkSpanCall(r, "setStatus", 2, error, fail)
                 ELSE IF success THEN SdkSpanCall(w, "setStatus", 1, Undef, fail)
                 ELSE w
       IN  EndInFinally(w1, fail)

OTLPFull_addAttribute(w, fail) ==
  IF w.h.currentSpan = 0 THEN w ELSE SdkSpanCall(w, "setAttributes", 0, Undef, fail)

OTLPFull_recordError(w, fail) ==
  IF w.h.currentSpan = 0 THEN w ELSE SdkSpanCall(w, "recordException", 0, Undef, fail)

\* ---------------------------------------------------------------- actions
\* A handler has run to completion: the handle it leaves, and the record of it
\* (pre is the handle as the handler found it).
Done(op, flag, msg, w) ==
  /\ h' = w.h
  /\ nspans' = w.n
  /\ last' = [op |-> op, flag |-> flag, msg |-> msg, pre |-> h,
              log |-> w.log, exc |-> w.exc,
              work |-> NoWork, opts |-> NoOpts, result |-> Undef]

\* ConfigManager.setConfig, for the two fields the tracers read.
SetConfig ==
  /\ last.op # "call"
  /\ \E e \in BOOLEAN, t \in BOOLEAN :
       cfg' = [cfg EXCEPT !.enabled = e, !.traceOnErrorOnly = t]
  /\ Done("setConfig", FALSE, Undef, World(h, nspans))
  /\ UNCHANGED <<inflight, variant, wrapper, env, objs, held, mc>>

LazyNew ==
  /\ variant = "OTLPLazy" /\ ~h.made
  /\ Done("new", FALSE, Undef, World([NoHandle EXCEPT !.made = TRUE], nspans))
  /\ UNCHANGED <<inflight, cfg, variant, wrapper, env, objs, held, mc>>

\* A startSpan that nothing interleaves with; calls of startSpan do not overlap.
LazyStartSpan ==
  /\ variant = "OTLPLazy" /\ h.made /\ ~h.pending /\ nspans < MaxSpans
  /\ \E isError \in BOOLEAN, fail \in SUBSET StartOps :
       Done("startSpan", isError, Undef,
            OTLPLazy_startSpan(World(h, nspans), cfg, isError, fail))
  /\ UNCHANGED <<inflight, cfg, variant, wrapper, env, objs, held, mc>>

\* A startSpan reaches the awaits of its first initialization and yields.
LazyStartSpanAwaits ==
  /\ variant = "OTLPLazy" /\ h.made /\ ~h.pending /\ ~h.initialized
  /\ nspans < MaxSpans /\ cfg.enabled
  /\ \E isError \in BOOLEAN :
       /\ cfg.traceOnErrorOnly => isError
       /\ Done("startSpanAwaits", isError, Undef,
               World(OTLPLazy_startSpan_Awaiting(h, cfg), nspans))
  /\ UNCHANGED <<inflight, cfg, variant, wrapper, env, objs, held, mc>>

\* The yielded startSpan runs to its end.
LazyStartSpanResumes ==
  /\ variant = "OTLPLazy" /\ h.made /\ h.pending /\ nspans < MaxSpans
  /\ \E fail \in SUBSET StartOps :
       Done("startSpanResumed", FALSE, Undef,
            OTLPLazy_startSpan_Resumed(World(h, nspans), fail))
  /\ UNCHANGED <<inflight, cfg, variant, wrapper, env, objs, held, mc>>

\* An uncaught error, an unhandled rejection or a console.error, once
\* setupAutoInstrumentation has registered the listeners.
LazyHandleGlobalError ==
  /\ variant = "OTLPLazy" /\ h.made /\ h.autoInstrumentationEnabled /\ nspans < MaxSpans
  /\ cfg' = IF ~cfg.enabled /\ cfg.traceOnErrorOnly THEN [cfg EXCEPT !.enabled = TRUE] ELSE cfg
  /\ \E message \in Messages, fail \in SUBSET StartOps :
       Done("handleGlobalError", TRUE, message,
            OTLPLazy_handleGlobalError(World(h, nspans), cfg', message, fail))
  /\ UNCHANGED <<inflight, variant, wrapper, env, objs, held, mc>>

\* configure({serviceName})
LazyConfigure ==
  /\ variant = "OTLPLazy" /\ h.made
  /\ \E name \in ServiceNames :
       /\ cfg' = [cfg EXCEPT !.serviceName = name]
       /\ Done("configure", FALSE, name, World(OTLPLazy_configure(h), nspans))
  /\ UNCHANGED <<inflight, variant, wrapper, env, objs, held, mc>>

LazyEndSpan ==
  /\ variant = "OTLPLazy" /\ h.made
  /\ \E success \in BOOLEAN, message \in Messages \cup {Undef}, fail \in SUBSET EndOps :
       Done("endSpan", success, message,
            OTLPLazy_endSpan(World(h, nspans), success, message, fail))
  /\ UNCHANGED <<inflight, cfg, variant, wrapper, env, objs, held, mc>>

LazyAddAttribute ==
  /\ variant = "OTLPLazy" /\ h.made
  /\ \E fail \in SUBSET {"setAttributes"} :
       Done("addAttribute", FALSE, Undef, OTLPLazy_addAttribute(World(h, nspans), fail))
  /\ UNCHANGED <<inflight, cfg, variant, wrapper, env, objs, held, mc>>

LazyAddEvent ==
  /\ variant = "OTLPLazy" /\ h.made
  /\ \E fail \in SUBSET {"addEvent"} :
       Done("addEvent", FALSE, Undef, OTLPLazy_addEvent(World(h, nspans), fail))
  /\ UNCHANGED <<inflight, cfg, variant, wrapper, env, objs, held, mc>>

IndexNew ==
  /\ variant = "LazyIndex" /\ ~h.made
  /\ Done("new", FALSE, Undef, World([NoHandle EXCEPT !.made = TRUE], nspans))
  /\ UNCHANGED <<inflight, cfg, variant, wrapper, env, objs, held, mc>>

IndexStartSpan ==
  /\ variant = "LazyIndex" /\ h.made /\ nspans < MaxSpans
  /\ \E fail \in SUBSET StartOps :
       Done("startSpan", FALSE, Undef, LazyIndex_startSpan(World(h, nspans), fail))
  /\ UNCHANGED <<inflight, cfg, variant, wrapper, env, objs, held, mc>>

IndexEndSpan ==
  /\ variant = "LazyIndex" /\ h.made
  /\ \E success \in BOOLEAN, message \in Messages \cup {Undef}, fail \in SUBSET EndOps :
       Done("endSpan", success, message,
            LazyIndex_endSpan(World(h, nspans), success, message, fail))
  /\ UNCHANGED <<inflight, cfg, variant, wrapper, env, objs, held, mc>>

IndexAddAttribute ==
  /\ variant = "LazyIndex" /\ h.made
  /\ \E fail \in SUBSET {"setAttributes"} :
       Done("addAttribute", FALSE, Undef, LazyIndex_addAttribute(World(h, nspans), fail))
  /\ UNCHANGED <<inflight, cfg, variant, wrapper, env, objs, held, mc>>

IndexAddEvent ==
  /\ variant = "LazyIndex" /\ h.made
  /\ \E fail \in SUBSET {"addEvent"} :
       Done("addEvent", FALSE, Undef, LazyIndex_addEvent(World(h, nspans), fail))
  /\ UNCHANGED <<inflight, cfg, variant, wrapper, env, objs, held, mc>>

OtlpNew ==
  /\ variant = "OTLP" /\ ~h.made
  /\ \E e \in BOOLEAN, t \in BOOLEAN :
       Done("new", FALSE, Undef, World(OTLP_constructor(e, t), nspans))
  /\ UNCHANGED <<inflight, cfg, variant, wrapper, env, objs, held, mc>>

\* The continuation of the initialize() the constructor started.
OtlpInitialize ==
  /\ variant = "OTLP" /\ h.made /\ h.pending
  /\ \E fail \in SUBSET {"init"} :
       Done("initialize", FALSE, Undef, OTLP_initialize(World(h, nspans), fail))
  /\ UNCHANGED <<inflight, cfg, variant, wrapper, env, objs, held, mc>>

OtlpStartSpan ==
  /\ variant = "OTLP" /\ h.made /\ nspans < MaxSpans
  /\ \E isError \in BOOLEAN, fail \in SUBSET StartOps :
       Done("startSpan", isError, Undef, OTLP_startSpan(World(h, nspans), isError, fail))
  /\ UNCHANGED <<inflight, cfg, variant, wrapper, env, objs, held, mc>>

OtlpEndSpan ==
  /\ variant = "OTLP" /\ h.made
  /\ \E success \in BOOLEAN, message \in Messages \cup {Undef}, fail \in SUBSET EndOps :
       Done("endSpan", success, message,
            OTLP_endSpan(World(h, nspans), success, message, fail))
  /\ UNCHANGED <<inflight, cfg, variant, wrapper, env, objs, held, mc>>

OtlpAddAttribute ==
  /\ variant = "OTLP" /\ h.made
  /\ \E fail \in SUBSET {"setAttributes"} :
       Done("addAttribute", FALSE, Undef, OTLP_addAttribute(World(h, nspans), fail))
  /\ UNCHANGED <<inflight, cfg, variant, wrapper, env, objs, held, mc>>

OtlpRecordError ==
  /\ variant = "OTLP" /\ h.made
  /\ \E fail \in SUBSET {"recordException"} :
       Done("recordError", FALSE, Undef, OTLP_recordError(World(h, nspans), fail))
  /\ UNCHANGED <<inflight, cfg, variant, wrapper, env, objs, held, mc>>

OtlpAddEvent ==
  /\ variant = "OTLP" /\ h.made
  /\ \E fail \in SUBSET {"addEvent"} :
       Done("addEvent", FALSE, Undef, OTLP_addEvent(World(h, nspans), fail))
  /\ UNCHANGED <<inflight, cfg, variant, wrapper, env, objs, held, mc>>

\* new OTLPFull(config?): an optional setConfig, then initialize().
FullNew ==
  /\ variant = "OTLPFull" /\ ~h.made
  /\ \E c \in {cfg} \cup {[cfg EXCEPT !.enabled = e] : e \in BOOLEAN},
        fail \in SUBSET {"init"} :
       /\ cfg' = c
       /\ Done("new", FALSE, Undef,
               OTLPFull_initialize(World([NoHandle EXCEPT !.made = TRUE], nspans), c, fail))
  /\ UNCHANGED <<inflight, variant, wrapper, env, objs, held, mc>>

FullStartSpan ==
  /\ variant = "OTLPFull" /\ h.made /\ nspans < MaxSpans
  /\ \E onErrorOnly \in BOOLEAN, fail \in SUBSET StartOps :
       Done("startSpan", onErrorOnly, Undef,
            OTLPFull_startSpan(World(h, nspans), cfg, onErrorOnly, fail))
  /\ UNCHANGED <<inflight, cfg, variant, wrapper, env, objs, held, mc>>

FullEndSpan ==
  /\ variant = "OTLPFull" /\ h.made
  /\ \E success \in BOOLEAN, error \in Messages \cup {Undef}, fail \in SUBSET EndOps :
       Done("endSpan", success, error,
            OTLPFull_endSpan(World(h, nspans), success, error, fail))
  /\ UNCHANGED <<inflight, cfg, variant, wrapper, env, objs, held, mc>>

FullAddAttribute ==
  /\ variant = "OTLPFull" /\ h.made
  /\ \E fail \in SUBSET {"setAttributes"} :
       Done("addAttribute", FALSE, Undef, OTLPFull_addAttribute(World(h, nspans), fail))
  /\ UNCHANGED <<inflight, cfg, variant, wrapper, env, objs, held, mc>>

FullRecordError ==
  /\ variant = "OTLPFull" /\ h.made
  /\ \E fail \in SUBSET {"recordException"} :
       Done("recordError", FALSE, Undef, OTLPFull_recordError(World(h, nspans), fail))
  /\ UNCHANGED <<inflight, cfg, variant, wrapper, env, objs, held, mc>>

NoLast == [op |-> "none", flag |-> FALSE, msg |-> Undef, pre |-> NoHandle,
           log |-> <<>>, exc |-> NoExc,
           work |-> NoWork, opts |-> NoOpts, result |-> Undef]

\* The store as loadFromEnvironment leaves it; only OTLPLazy of otlp-lazy.ts
\* reads enableAutoInstrumentation.
InitialConfigs(autos) ==
  {c \in Configs : c.serviceName = "unknown-service" /\ c.enableAutoInstrumentation \in autos}

Init ==
  /\ variant \in Variants
  /\ cfg \in InitialConfigs(IF variant = "OTLPLazy" THEN BOOLEAN ELSE {FALSE})
  /\ h = NoHandle
  /\ nspans = 0
  /\ last = NoLast
  /\ wrapper = "none"
  /\ env = NoEnv
  /\ objs = NoObjs /\ held = NoHeld /\ mc = NoMetrics /\ inflight = NoTasks

Next ==
  \/ SetConfig
  \/ LazyNew
  \/ LazyStartSpan
  \/ LazyStartSpanAwaits
  \/ LazyStartSpanResumes
  \/ LazyHandleGlobalError
  \/ LazyConfigure
  \/ LazyEndSpan
  \/ LazyAddAttribute
  \/ LazyAddEvent
  \/ IndexNew
  \/ IndexStartSpan
  \/ IndexEndSpan
  \/ IndexAddAttribute
  \/ IndexAddEvent
  \/ OtlpNew
  \/ OtlpInitialize
  \/ OtlpStartSpan
  \/ OtlpEndSpan
  \/ OtlpAddAttribute
  \/ OtlpRecordError
  \/ OtlpAddEvent
  \/ FullNew
  \/ FullStartSpan
  \/ FullEndSpan
  \/ FullAddAttribute
  \/ FullRecordError

Spec == Init /\ [][Next]_vars

\* ---------------------------------------------------------------- wrappers: shared steps
\* `await originalMethod.apply(this, args)` / `await fn()`.
Invoke(w, work) ==
  LET w1 == Call(w, Ev("work", 0, 0, Undef, work.k = "ret"))
  IN  IF work.k = "throw" THEN [w1 EXCEPT !.exc = work.e] ELSE w1

\* Promise.race([work, timer]): the work is invoked, and the timer's rejection
\* is what the wrapper sees when it fires first.
InvokeRace(w, work, timedOut) ==
  LET w1 == Invoke(w, work)
  IN  IF timedOut THEN [w1 EXCEPT !.exc = TimeoutErr] ELSE w1

\* JSON.stringify(result)
Stringify(w, v) == IF v = "circular" THEN [w EXCEPT !.exc = JsonErr] ELSE w

\* A user callback (onSuccess, onError) being called.
RunCallback(w, cb) ==
  IF cb = "throws" THEN [Call(w, Ev("callback", 0, 0, Undef, FALSE)) EXCEPT !.exc = CallbackExc]
  ELSE Call(w, Ev("callback", 0, 0, Undef, TRUE))

\* `error instanceof Error ? error.message : 'Unknown error'`
ErrorMessage(e) == IF InstanceOfError(e) THEN e.msg ELSE "Unknown error"
\* `error.message` with error typed any: undefined on a string.
PropMessage(e) == IF InstanceOfError(e) THEN e.msg ELSE Undef
\* Reading `error.message` throws a TypeError when error is null.
ReadMessage(w, e) == IF e.kind = "null" THEN [w EXCEPT !.exc = TypeErr] ELSE w
\* `isError(error) ? error : new Error(String(error))`, then `.message`.
WrappedMessage(e) ==
  IF InstanceOfError(e) THEN e.msg ELSE IF e.kind = "null" THEN "null" ELSE "thrown"

\* `new OTLPLazy()` in a wrapper: a handle of its own for this call.
Fresh(w) == [Call(w, Ev("new", 0, 0, Undef, TRUE)) EXCEPT !.h = [NoHandle EXCEPT !.made = TRUE]]
\* `throw error` at the end of a catch block.
Rethrow(w, e) == [w EXCEPT !.exc = e]

\* ---------------------------------------------------------------- wrappers on OTLPLazy (lazy/otlp-lazy.ts)
\* index.ts withTrace(spanName, fn, {includeResult})
withTrace(w0, c, work, includeResult, fail) ==
  IF ~c.enabled THEN Invoke(w0, work)
  ELSE LET w1 == OTLPLazy_startSpan(Fresh(w0), c, FALSE, fail)
           w2 == Invoke(w1, work)
           w3 == IF Raised(w2) \/ ~includeResult THEN w2
                 ELSE LET s == Stringify(w2, work.v)
                      IN  IF Raised(s) THEN s ELSE OTLPLazy_addAttribute(s, fail)
           w4 == IF Raised(w3) THEN w3 ELSE OTLPLazy_endSpan(w3, TRUE, Undef, fail)
       IN  IF ~Raised(w4) THEN w4
           ELSE Rethrow(OTLPLazy_endSpan(Swallow(w4), FALSE, ErrorMessage(w4.exc), fail),
                        w4.exc)

\* decorators/trace-decorator.ts Trace(spanName)
Trace(w0, c, work, fail) ==
  IF ~c.enabled THEN Invoke(w0, work)
  ELSE LET w1 == OTLPLazy_startSpan(Fresh(w0), c, FALSE, fail)
           w2 == Invoke(w1, work)
           w3 == IF Raised(w2) THEN w2 ELSE OTLPLazy_endSpan(w2, TRUE, Undef, fail)
       IN  IF ~Raised(w3) THEN w3
           ELSE Rethrow(OTLPLazy_endSpan(Swallow(w3), FALSE, Undef, fail), w3.exc)

\* OTLPLazy.trace(target, propertyKey, descriptor): the method it installs.
OTLPLazy_trace(w0, c, work, fail) ==
  IF ~c.enabled THEN Invoke(w0, work)
  ELSE LET w1 == OTLPLazy_startSpan(Fresh(w0), c, FALSE, fail)
           w2 == Invoke(w1, work)
           w3 == IF Raised(w2) THEN w2 ELSE OTLPLazy_endSpan(w2, TRUE, Undef, fail)
       IN  IF ~Raised(w3) THEN w3
           ELSE LET w4 == OTLPLazy_startSpan(Swallow(w3), c, TRUE, fail)
                IN  Rethrow(OTLPLazy_endSpan(w4, FALSE, ErrorMessage(w3.exc), fail), w3.exc)

\* decorators/with-trace.ts traceError(spanName, error, args, options)
traceError(w0, c, e, onError, fail) ==
  LET w1 == OTLPLazy_startSpan(Fresh(w0), c, TRUE, fail)
      w2 == IF onError # "none" /\ w1.h.currentSpan # 0 THEN RunCallback(w1, onError) ELSE w1
      w3 == IF Raised(w2) THEN w2 ELSE ReadMessage(w2, e)
  IN  IF Raised(w3) THEN w3 ELSE OTLPLazy_endSpan(w3, FALSE, PropMessage(e), fail)

\* decorators/with-trace.ts withTrace(spanName, {condition, onSuccess, onError})
decorators_withTrace(w0, c, work, condition, onSuccess, onError, fail) ==
  IF ~c.enabled THEN Invoke(w0, work)
  ELSE IF ~condition THEN Invoke(w0, work)
  ELSE IF c.traceOnErrorOnly
  THEN LET w1 == Invoke(w0, work)
       IN  IF ~Raised(w1) THEN w1
           ELSE LET w2 == traceError(Swallow(w1), c, w1.exc, onError, fail)
                IN  IF Raised(w2) THEN w2 ELSE Rethrow(w2, w1.exc)
  ELSE LET w1 == OTLPLazy_startSpan(Fresh(w0), c, FALSE, fail)
           w2 == Invoke(w1, work)
           w3 == IF ~Raised(w2) /\ onSuccess # "none" /\ w2.h.currentSpan # 0
                 THEN RunCallback(w2, onSuccess) ELSE w2
           w4 == IF Raised(w3) THEN w3 ELSE OTLPLazy_endSpan(w3, TRUE, Undef, fail)
       IN  IF ~Raised(w4) THEN w4
           ELSE LET e == w4.exc
                    w5 == IF onError # "none" /\ w4.h.currentSpan # 0
                          THEN RunCallback(Swallow(w4), onError) ELSE Swallow(w4)
                    w6 == IF Raised(w5) THEN w5 ELSE ReadMessage(w5, e)
                    w7 == IF Raised(w6) THEN w6
                          ELSE OTLPLazy_endSpan(w6, FALSE, PropMessage(e), fail)
                IN  IF Raised(w7) THEN w7 ELSE Rethrow(w7, e)

\* AdvancedTrace({includeResult, timeout}) of the lazy-loading decorators,
\* without retryOnError.
AdvancedTrace(w0, c, work, includeResult, timedOut, fail) ==
  IF ~c.enabled THEN Invoke(w0, work)
  ELSE LET w1 == OTLPLazy_startSpan(Fresh(w0), c, FALSE, fail)
           w2 == InvokeRace(w1, work, timedOut)
           w3 == IF Raised(w2) \/ ~includeResult THEN w2
                 ELSE LET s == Stringify(w2, work.v)
                      IN  IF Raised(s) THEN s ELSE OTLPLazy_addAttribute(s, fail)
           w4 == IF Raised(w3) THEN w3 ELSE OTLPLazy_endSpan(w3, TRUE, Undef, fail)
       IN  IF ~Raised(w4) THEN w4
           ELSE Rethrow(OTLPLazy_endSpan(Swallow(w4), FALSE, Undef, fail), w4.exc)
\* A tracer method called with no try/catch around it.
Guarded_NoCatch(m, thrown, w, after) == IF m \in thrown THEN [w EXCEPT !.exc = SdkExc] ELSE after

\* A tracer method called inside its own try/catch by lazy-trace.ts: it runs,
\* or (m in thrown) it throws at once and the catch swallows that.
Guarded(m, thrown, w, after) == IF m \in thrown THEN w ELSE after

\* A lazyTrace that creates its tracer without asking shouldTrace().
LazyTrace_lazyTrace_IgnoresShouldTrace(w0, c, work, o, fail, thrown) ==
  Invoke(IF w0.h.made THEN w0 ELSE Fresh(w0), work)

\* decorators/lazy-trace.ts lazyTrace(spanName, {includeResult}); thrown names
\* the steps (new, startSpan, addEvent, endSpan) that throw when called.
LazyTrace_lazyTrace(w0, c, work, o, fail, thrown) ==
  LET w1 == IF ~w0.h.made /\ o.shouldTrace /\ "new" \notin thrown THEN Fresh(w0) ELSE w0
  IN  IF ~w1.h.made THEN Invoke(w1, work)
      ELSE LET spanStarted == "startSpan" \notin thrown
               w2 == Guarded("startSpan", thrown, w1, OTLPLazy_startSpan(w1, c, FALSE, fail))
               w3 == Invoke(w2, work)
           IN  IF ~spanStarted THEN w3
               ELSE IF ~Raised(w3)
               THEN LET a1 == IF o.includeResult
                              THEN Guarded("addEvent", thrown, w3, OTLPLazy_addEvent(w3, fail))
                              ELSE w3
                    IN  Guarded("endSpan", thrown, a1, OTLPLazy_endSpan(a1, TRUE, Undef, fail))
               ELSE LET e  == w3.exc
                        b0 == Swallow(w3)
                        b1 == IF "addEvent" \in thrown THEN b0
                              ELSE Guarded("endSpan", thrown, OTLPLazy_addEvent(b0, fail),
                                           OTLPLazy_endSpan(OTLPLazy_addEvent(b0, fail), FALSE,
                                                            WrappedMessage(e), fail))
                    IN  Rethrow(b1, e)

\* ---------------------------------------------------------------- wrappers on OTLP (otlp.ts)
\* getOTLPInstance(): the module's instance, made by `new OTLP()` on first use.
\* With no config given, enabled comes from window.SETTINGS and traceOnlyErrors
\* is true (mergeWithDefaults).
getOTLPInstance(w, ev) ==
  IF w.h.made THEN w ELSE [w EXCEPT !.h = OTLP_constructor(ev.otelEndpoint, TRUE)]

\* The catch block of trace, traceOnError and advancedTrace, up to its last
\* statements (the retry of advancedTrace, `throw error`).
traceCatchBody(w, e, fail) ==
  LET w1 == OTLP_startSpan(w, TRUE, fail)
      w2 == IF Raised(w1) THEN w1 ELSE ReadMessage(w1, e)
      w3 == IF Raised(w2) THEN w2 ELSE OTLP_addAttribute(w2, fail)
      w4 == IF Raised(w3) THEN w3 ELSE OTLP_recordError(w3, fail)
  IN  IF Raised(w4) THEN w4 ELSE OTLP_endSpan(w4, FALSE, PropMessage(e), fail)

\* The catch block of trace, traceOnError and advancedTrace.
traceCatch(w, e, fail) ==
  LET w5 == traceCatchBody(w, e, fail)
  IN  IF Raised(w5) THEN w5 ELSE Rethrow(w5, e)

\* The try block of advancedTrace({includeResult, timeout}).
advancedTraceTry(w0, ev, work, includeResult, timedOut, fail) ==
  LET w1 == getOTLPInstance(w0, ev)
      w2 == InvokeRace(w1, work, timedOut)
      w3 == IF Raised(w2) THEN w2 ELSE OTLP_startSpan(w2, FALSE, fail)
      w4 == IF Raised(w3) \/ ~includeResult THEN w3
            ELSE LET s == Stringify(w3, work.v)
                 IN  IF Raised(s) THEN s ELSE OTLP_addAttribute(s, fail)
  IN  IF Raised(w4) THEN w4 ELSE OTLP_endSpan(w4, TRUE, Undef, fail)

\* advancedTrace({includeResult, timeout}), without retryOnError.
advancedTrace(w0, ev, work, includeResult, timedOut, fail) ==
  LET w5 == advancedTraceTry(w0, ev, work, includeResult, timedOut, fail)
  IN  IF ~Raised(w5) THEN w5 ELSE traceCatch(Swallow(w5), w5.exc, fail)

\* One pass of the body of advancedTrace({retryOnError: true}): w is the
\* world it leaves, again says that it ended in
\* `return descriptor.value.apply(this, args)`.
advancedTrace_retryOnError(w0, ev, work, includeResult, timedOut, fail) ==
  LET t == advancedTraceTry(w0, ev, work, includeResult, timedOut, fail)
      b == traceCatchBody(Swallow(t), t.exc, fail)
  IN  IF ~Raised(t) THEN [w |-> t, again |-> FALSE]
      ELSE [w |-> b, again |-> ~Raised(b)]

\* One pass of the body of AdvancedTrace({retryOnError: true}): with the
\* store disabled the method is called outside the try block; otherwise
\* nothing in the catch block throws, so every failure ends in the retry.
AdvancedTrace_retryOnError(w0, c, work, includeResult, timedOut, fail) ==
  LET r == AdvancedTrace(w0, c, work, includeResult, timedOut, fail)
  IN  IF c.enabled /\ Raised(r) THEN [w |-> Swallow(r), again |-> TRUE]
      ELSE [w |-> r, again |-> FALSE]

\* decorators/trace.ts trace(spanName, {includeResult})
trace(w0, ev, work, includeResult, fail) ==
  advancedTrace(w0, ev, work, includeResult, FALSE, fail)

\* decorators/trace.ts traceOnError(spanName)
traceOnError(w0, ev, work, fail) ==
  LET w1 == Invoke(w0, work)
  IN  IF ~Raised(w1) THEN w1
      ELSE traceCatch(getOTLPInstance(Swallow(w1), ev), w1.exc, fail)

\* ---------------------------------------------------------------- wrappers on OTLPLazy (lazy/index)
shouldEnableTracing(c, ev, shouldTrace) == c.enabled /\ shouldTrace /\ ev.tracingEnv

\* A lazy creation that forgot to look at this._lazyTracer first.
EnsureTracer_AlwaysNew(w, c, ev, shouldTrace) ==
  IF shouldEnableTracing(c, ev, shouldTrace) THEN Fresh(w) ELSE w

\* `if (!this._lazyTracer && shouldEnableTracing(this)) this._lazyTracer = new OTLPLazy()`
EnsureTracer(w, c, ev, shouldTrace) ==
  IF ~w.h.made /\ shouldEnableTracing(c, ev, shouldTrace) THEN Fresh(w) ELSE w

\* `${err.name}: ${err.message}`
NamedMessage(e) == "Error: " \o WrappedMessage(e)

\* lazyTrace once its work has settled: the rest of the try block, or the catch.
lazyTraceSettled(w3, o, fail) ==
  IF ~Raised(w3)
  THEN LET a1 == LazyIndex_addAttribute(w3, fail)
           a2 == IF o.includeResult
                 THEN LazyIndex_addAttribute(a1, fail) ELSE a1
           a3 == LazyIndex_addEvent(a2, fail)
       IN  LazyIndex_endSpan(a3, TRUE, Undef, fail)
  ELSE LET e == w3.exc
           b1 == LazyIndex_addAttribute(Swallow(w3), fail)
           b2 == LazyIndex_addAttribute(b1, fail)
           b3 == LazyIndex_addAttribute(b2, fail)
           b4 == LazyIndex_addEvent(b3, fail)
       IN  Rethrow(LazyIndex_endSpan(b4, FALSE, WrappedMessage(e), fail), e)

\* lazy-decorators.ts lazyTrace(spanName, {condition, timeout, includeResult})
lazyTrace(w0, c, ev, work, o, fail) ==
  IF ~o.condition THEN Invoke(w0, work)
  ELSE LET w1 == EnsureTracer(w0, c, ev, o.shouldTrace)
       IN  IF ~w1.h.made THEN Invoke(w1, work)
           ELSE lazyTraceSettled(InvokeRace(LazyIndex_startSpan(w1, fail), work, o.timedOut),
                                 o, fail)

\* What a method does that awaits another method (outcome inner) of its own
\* instance, and either lets its error through or catches it and returns.
Outer(inner, catches) ==
  IF inner.k = "throw" /\ catches THEN [k |-> "ret", v |-> "value", e |-> NoExc] ELSE inner

\* A lazyTrace method whose work awaits a second lazyTrace method of the same
\* instance; both are decorated with no options and share this._lazyTracer.
lazyTraceNested(w0, c, ev, inner, catches, fail) ==
  LET w1 == EnsureTracer(w0, c, ev, TRUE)
  IN  IF ~w1.h.made THEN Invoke(w1, Outer(inner, catches))
      ELSE LET w2 == LazyIndex_startSpan(w1, fail)
               b0 == Call(w2, Ev("work", 0, 0, Undef, Outer(inner, catches).k = "ret"))
               b1 == LazyIndex_startSpan(b0, fail)
               b2 == IF inner.k = "throw" THEN [b1 EXCEPT !.exc = inner.e] ELSE b1
               b3 == lazyTraceSettled(b2, NoOpts, fail)
               w3 == IF Raised(b3) /\ catches THEN Swallow(b3) ELSE b3
           IN  lazyTraceSettled(w3, NoOpts, fail)

\* An error-only decorator that behaves as the always-tracing one.
lazyTraceOnError_TracesEveryCall(w0, c, ev, work, o, fail) ==
  lazyTrace(w0, c, ev, work, o, fail)

\* lazy-decorators.ts lazyTraceOnError(spanName, {errorFilter, onError})
lazyTraceOnError(w0, c, ev, work, o, fail) ==
  LET w1 == Invoke(w0, work)
  IN  IF ~Raised(w1) THEN w1
      ELSE IF ~o.errorFilter THEN w1
      ELSE LET e == w1.exc
               w2 == EnsureTracer(Swallow(w1), c, ev, o.shouldTrace)
           IN  IF ~w2.h.made THEN Rethrow(w2, e)
               ELSE LET b0 == LazyIndex_startSpan(w2, fail)
                        b1 == LazyIndex_addAttribute(b0, fail)
                        b2 == LazyIndex_addAttribute(b1, fail)
                        b3 == LazyIndex_addAttribute(b2, fail)
                        b4 == LazyIndex_addEvent(b3, fail)
                        b5 == IF o.onError = "none" THEN b4
                              ELSE LET r == RunCallback(b4, o.onError)
                                   IN  IF Raised(r) THEN LazyIndex_addEvent(Swallow(r), fail)
                                       ELSE r
                    IN  Rethrow(LazyIndex_endSpan(b5, FALSE, NamedMessage(e), fail), e)

\* shouldEnableTracing of the module that defines lazyTraceAdvanced: it does
\* not read the ConfigManager.
shouldEnableTracingByEnv(ev, shouldTrace) == shouldTrace /\ ev.tracingEnv

\* A user callback called inside its own try/catch.
GuardedCallback(w, cb) ==
  IF cb = "none" THEN w ELSE [RunCallback(w, cb) EXCEPT !.exc = w.exc]

\* lazy-decorators.ts lazyTraceAdvanced(spanName, {condition, traceOnlyOnError,
\* timeout, includeResult, errorFilter, onSuccess, onError}); the tracer is a
\* local of the call.
lazyTraceAdvanced(w0, ev, work, o, fail) ==
  IF ~o.condition THEN Invoke(w0, work)
  ELSE LET can == shouldEnableTracingByEnv(ev, o.shouldTrace)
           t0 == IF ~o.traceOnlyOnError /\ can THEN Fresh(w0) ELSE w0
           w1 == IF t0.h.made THEN LazyIndex_startSpan(t0, fail) ELSE t0
           w2 == InvokeRace(w1, work, o.timedOut)
       IN  IF ~Raised(w2)
           THEN GuardedCallback(IF w2.h.made THEN lazyTraceSettled(w2, o, fail) ELSE w2,
                                o.onSuccess)
           ELSE IF ~o.errorFilter THEN w2
           ELSE LET t1 == IF ~w2.h.made /\ can THEN Fresh(w2) ELSE w2
                    b0 == IF t1.h.made /\ o.traceOnlyOnError
                          THEN [LazyIndex_startSpan(Swallow(t1), fail) EXCEPT !.exc = w2.exc]
                          ELSE t1
                    b1 == IF b0.h.made THEN lazyTraceSettled(b0, o, fail) ELSE b0
                IN  GuardedCallback(b1, o.onError)

\* ---------------------------------------------------------------- wrapper calls
Wrappers == {"withTrace", "Trace", "OTLPLazy.trace", "decorators/withTrace",
             "AdvancedTrace", "trace", "traceOnError", "advancedTrace",
             "lazyTrace", "lazyTraceOnError", "lazyTraceAdvanced",
             "lazy-trace/lazyTrace"}
\* Wrappers that keep a handle between calls: the module's OTLP instance,
\* this._lazyTracer, this._errorTracer.  The others make one per call.
OnModuleInstance == {"trace", "traceOnError", "advancedTrace"}
OnInstanceTracer == {"lazyTrace", "lazyTraceOnError"}
HandleClass(wr) ==
  IF wr \in OnModuleInstance THEN "OTLP"
  ELSE IF wr \in OnInstanceTracer \cup {"lazyTraceAdvanced"} THEN "LazyIndex"
  ELSE "OTLPLazy"
\* The part of the environment each wrapper reads.
EnvOf(wr) ==
  [otelEndpoint : IF wr \in OnModuleInstance THEN BOOLEAN ELSE {FALSE},
   tracingEnv : IF HandleClass(wr) = "LazyIndex" THEN BOOLEAN ELSE {FALSE}]

\* The SDK calls each family of wrappers can reach.
LazyFails == {"init", "startSpan", "setAttributes", "setStatus", "end"}
OtlpFails == {"startSpan", "setAttributes", "recordException", "setStatus", "end"}
IndexFails == {"init", "startSpan", "setAttributes", "addEvent", "setStatus", "end"}
\* The failures tried under lazyTraceAdvanced: those that decide whether a span
\* exists and whether it is ended.
AdvancedFails == {"init", "startSpan", "setStatus", "end"}

\* Calls do not overlap: one starts after the caller took the last outcome.
Idle == last.op # "call"

\* A wrapper call has settled: what the caller sees, and the handle kept.
Returned(work, opts, w, kept) ==
  /\ w.n <= MaxSpans
  /\ h' = IF kept THEN w.h ELSE h
  /\ nspans' = w.n
  /\ last' = [op |-> "call", flag |-> FALSE, msg |-> Undef, pre |-> h,
              log |-> w.log, exc |-> w.exc,
              work |-> work, opts |-> opts,
              result |-> IF Raised(w) THEN Undef ELSE work.v]
  /\ UNCHANGED <<inflight, cfg, variant, wrapper, env, objs, held, mc>>

\* The caller has the outcome of its call and goes on.
CallerContinues ==
  /\ last.op = "call"
  /\ last' = NoLast
  /\ UNCHANGED <<inflight, cfg, variant, h, nspans, wrapper, env, objs, held, mc>>

\* The work of a call that timed out settles afterwards: Promise.race has
\* already settled and the wrapper attached nothing else to the work's promise,
\* so no code of the wrapper runs.
WorkSettlesLate ==
  /\ last.op = "call" /\ last.opts.timedOut /\ last.msg = Undef
  /\ last' = [last EXCEPT !.msg = "settled"]
  /\ UNCHANGED <<inflight, cfg, variant, h, nspans, wrapper, env, objs, held, mc>>

CallWithTrace ==
  /\ wrapper = "withTrace" /\ Idle
  /\ \E work \in Work, includeResult \in BOOLEAN, fail \in SUBSET LazyFails :
       Returned(work, [NoOpts EXCEPT !.includeResult = includeResult],
                withTrace(World(h, nspans), cfg, work, includeResult, fail), FALSE)

CallTrace ==
  /\ wrapper = "Trace" /\ Idle
  /\ \E work \in Work, fail \in SUBSET LazyFails :
       Returned(work, NoOpts, Trace(World(h, nspans), cfg, work, fail), FALSE)

CallLazyTraceMethod ==
  /\ wrapper = "OTLPLazy.trace" /\ Idle
  /\ \E work \in Work, fail \in SUBSET LazyFails :
       Returned(work, NoOpts, OTLPLazy_trace(World(h, nspans), cfg, work, fail), FALSE)

CallDecoratorsWithTrace ==
  /\ wrapper = "decorators/withTrace" /\ Idle
  /\ \E work \in Work, condition \in BOOLEAN, onSuccess \in Callbacks,
        onError \in Callbacks, fail \in SUBSET LazyFails :
       Returned(work, [NoOpts EXCEPT !.condition = condition, !.onSuccess = onSuccess,
                                     !.onError = onError],
                decorators_withTrace(World(h, nspans), cfg, work, condition,
                                     onSuccess, onError, fail), FALSE)

CallAdvancedTraceLazy ==
  /\ wrapper = "AdvancedTrace" /\ Idle
  /\ \E work \in Work, includeResult \in BOOLEAN, timedOut \in BOOLEAN,
        fail \in SUBSET LazyFails :
       Returned(work, [NoOpts EXCEPT !.includeResult = includeResult, !.timedOut = timedOut],
                AdvancedTrace(World(h, nspans), cfg, work, includeResult, timedOut, fail),
                FALSE)

CallTraceDecorator ==
  /\ wrapper = "trace" /\ Idle
  /\ \E work \in Work, includeResult \in BOOLEAN, fail \in SUBSET OtlpFails :
       Returned(work, [NoOpts EXCEPT !.includeResult = includeResult],
                trace(World(h, nspans), env, work, includeResult, fail), TRUE)

CallTraceOnError ==
  /\ wrapper = "traceOnError" /\ Idle
  /\ \E work \in Work, fail \in SUBSET OtlpFails :
       Returned(work, NoOpts, traceOnError(World(h, nspans), env, work, fail), TRUE)

CallAdvancedTrace ==
  /\ wrapper = "advancedTrace" /\ Idle
  /\ \E work \in Work, includeResult \in BOOLEAN, timedOut \in BOOLEAN,
        fail \in SUBSET OtlpFails :
       Returned(work, [NoOpts EXCEPT !.includeResult = includeResult, !.timedOut = timedOut],
                advancedTrace(World(h, nspans), env, work, includeResult, timedOut, fail),
                TRUE)

CallLazyTrace ==
  /\ wrapper = "lazyTrace" /\ Idle
  /\ \E work \in Work, condition \in BOOLEAN, shouldTrace \in BOOLEAN,
        includeResult \in BOOLEAN, timedOut \in BOOLEAN, fail \in SUBSET IndexFails :
       LET o == [NoOpts EXCEPT !.condition = condition, !.shouldTrace = shouldTrace,
                               !.includeResult = includeResult, !.timedOut = timedOut]
       IN  Returned(work, o, lazyTrace(World(h, nspans), cfg, env, work, o, fail), TRUE)

\* A lazyTrace method that calls another lazyTrace method of the same object.
CallLazyTraceNested ==
  /\ wrapper = "lazyTrace" /\ Idle
  /\ \E inner \in Work, catches \in BOOLEAN, fail \in SUBSET IndexFails :
       Returned(Outer(inner, catches), [NoOpts EXCEPT !.inner = inner.k],
                lazyTraceNested(World(h, nspans), cfg, env, inner, catches, fail), TRUE)

CallLazyTraceOnError ==
  /\ wrapper = "lazyTraceOnError" /\ Idle
  /\ \E work \in Work, errorFilter \in BOOLEAN, shouldTrace \in BOOLEAN,
        onError \in Callbacks, fail \in SUBSET IndexFails :
       LET o == [NoOpts EXCEPT !.errorFilter = errorFilter, !.shouldTrace = shouldTrace,
                               !.onError = onError]
       IN  Returned(work, o, lazyTraceOnError(World(h, nspans), cfg, env, work, o, fail), TRUE)

CallLazyTraceAdvanced ==
  /\ wrapper = "lazyTraceAdvanced" /\ Idle
  /\ \E work \in Work, condition \in BOOLEAN, shouldTrace \in BOOLEAN,
        traceOnlyOnError \in BOOLEAN, includeResult \in BOOLEAN, timedOut \in BOOLEAN,
        errorFilter \in BOOLEAN, onSuccess \in Callbacks, onError \in Callbacks,
        fail \in SUBSET AdvancedFails :
       LET o == [NoOpts EXCEPT !.condition = condition, !.shouldTrace = shouldTrace,
                               !.traceOnlyOnError = traceOnlyOnError,
                               !.includeResult = includeResult, !.timedOut = timedOut,
                               !.errorFilter = errorFilter, !.onSuccess = onSuccess,
                               !.onError = onError]
       IN  Returned(work, o, lazyTraceAdvanced(World(h, nspans), env, work, o, fail), FALSE)

\* The tracer steps lazy-trace.ts guards against.
TracerSteps == {"new", "startSpan", "addEvent", "endSpan"}

CallLazyTraceLT ==
  /\ wrapper = "lazy-trace/lazyTrace" /\ Idle
  /\ \E work \in Work, shouldTrace \in BOOLEAN, includeResult \in BOOLEAN,
        fail \in SUBSET AdvancedFails, thrown \in SUBSET TracerSteps :
       LET o == [NoOpts EXCEPT !.shouldTrace = shouldTrace, !.includeResult = includeResult,
                               !.thrown = thrown]
       IN  Returned(work, o,
                    LazyTrace_lazyTrace(World(h, nspans), cfg, work, o, fail, thrown), TRUE)

InitWrap ==
  /\ cfg \in InitialConfigs({FALSE})
  /\ wrapper \in Wrappers
  /\ variant = HandleClass(wrapper)
  /\ env \in EnvOf(wrapper)
  /\ h = NoHandle
  /\ nspans = 0
  /\ last = NoLast
  /\ objs = NoObjs /\ held = NoHeld /\ mc = NoMetrics /\ inflight = NoTasks

NextWrap ==
  \/ CallerContinues
  \/ WorkSettlesLate
  \/ SetConfig
  \/ OtlpInitialize
  \/ CallWithTrace
  \/ CallTrace
  \/ CallLazyTraceMethod
  \/ CallDecoratorsWithTrace
  \/ CallAdvancedTraceLazy
  \/ CallTraceDecorator
  \/ CallTraceOnError
  \/ CallAdvancedTrace
  \/ CallLazyTrace
  \/ CallLazyTraceNested
  \/ CallLazyTraceOnError
  \/ CallLazyTraceAdvanced
  \/ CallLazyTraceLT

SpecWrap == InitWrap /\ [][NextWrap]_vars

\* ---------------------------------------------------------------- retryOnError
Retrying == {"AdvancedTrace", "advancedTrace"}

\* The caller calls a method decorated with retryOnError set.
RetryCallBegins ==
  /\ inflight = NoTasks /\ Idle
  /\ \E includeResult \in BOOLEAN, timeout \in BOOLEAN :
       inflight' = <<[includeResult |-> includeResult, timeout |-> timeout]>>
  /\ UNCHANGED <<cfg, variant, h, nspans, last, wrapper, env, objs, held, mc>>

\* A pass a of descriptor.value has ended: it settled the call, or it ended
\* in the recursive call, whose pass is the next step.
PassEnded(work, o, timedOut, a) ==
  /\ h' = IF wrapper \in OnModuleInstance THEN a.w.h ELSE h
  /\ last' = [op |-> IF a.again THEN "retry" ELSE "call",
              flag |-> FALSE, msg |-> Undef, pre |-> h,
              log |-> a.w.log, exc |-> a.w.exc, work |-> work,
              opts |-> [NoOpts EXCEPT !.includeResult = o.includeResult,
                                      !.timedOut = timedOut],
              result |-> IF Raised(a.w) \/ a.again THEN Undef ELSE work.v]
  /\ inflight' = IF a.again THEN inflight ELSE NoTasks
  /\ UNCHANGED <<cfg, variant, nspans, wrapper, env, objs, held, mc>>

\* One pass of descriptor.value for the call in progress: the method is
\* invoked once. Spans are numbered within a pass.
RetryAttempt ==
  /\ inflight # NoTasks
  /\ \E work \in Work, fail \in SUBSET {"startSpan", "end"},
        timedOut \in IF Head(inflight).timeout THEN BOOLEAN ELSE {FALSE} :
       PassEnded(work, Head(inflight), timedOut,
                 IF wrapper = "advancedTrace"
                 THEN advancedTrace_retryOnError(World(h, 0), env, work,
                        Head(inflight).includeResult, timedOut, fail)
                 ELSE AdvancedTrace_retryOnError(World(h, 0), cfg, work,
                        Head(inflight).includeResult, timedOut, fail))

InitRetry == InitWrap /\ wrapper \in Retrying

NextRetry ==
  \/ RetryCallBegins
  \/ RetryAttempt
  \/ CallerContinues
  \/ OtlpInitialize

\* A pass that ended in the recursive call is followed by the next pass: the
\* recursive call is made synchronously in the catch block.
SpecRetry == InitRetry /\ [][NextRetry]_vars /\ WF_vars(RetryAttempt)

\* ---------------------------------------------------------------- ConfigManager (config.ts)
\* The fields of OTLPConfig followed here: one the environment always seeds,
\* one that is optional, and headers, which holds a reference into objs
\* (0: undefined).
StoreFields == {"enabled", "endpoint", "headers"}
Endpoints == {Undef, "url"}
\* The field initializer of ConfigManager.config.
Defaults == [enabled |-> FALSE, endpoint |-> Undef, headers |-> 0]
\* process.env as loadFromEnvironment reads it.
ProcessEnvs == [OTLP_ENABLED : {Undef, "true"}, OTLP_ENDPOINT : {Undef, "env-url"}]

\* `a || b`
OrElse(a, b) == IF Truthy(a) THEN a ELSE b

loadFromEnvironment(c, pe) ==
  [c EXCEPT !.enabled = (pe.OTLP_ENABLED = "true"),
            !.endpoint = OrElse(pe.OTLP_ENDPOINT, c.endpoint)]

\* A setConfig that starts again from the defaults.
ConfigManager_setConfig_FromDefaults(c, keys, val) ==
  [f \in StoreFields |-> IF f \in keys THEN val[f] ELSE Defaults[f]]

\* setConfig(config): `{ ...this.config, ...config }`; keys are the own
\* properties of the partial, val their values (undefined included).
ConfigManager_setConfig(c, keys, val) ==
  [f \in StoreFields |-> IF f \in keys THEN val[f] ELSE c[f]]

\* getConfig(): `{ ...this.config }`, a new object with the same property
\* values; the headers property is the same reference.
ConfigManager_getConfig(c) == [f \in StoreFields |-> c[f]]

\* What a reader of a configuration object sees, headers entries included.
Reading(c, os) ==
  [enabled |-> c.enabled, endpoint |-> c.endpoint,
   headers |-> IF c.headers = 0 THEN Undef ELSE os[c.headers]]

\* The partials a caller passes: values for the fields in keys; a headers
\* object passed is the reference r.
Partials(r) ==
  [enabled : BOOLEAN, endpoint : Endpoints, headers : {0, r}]

\* The record of the last ConfigManager operation; written is, per field, the
\* value of the latest setConfig that supplied it, or else the seeded one.
Op(op, keys, written) == [op |-> op, keys |-> keys, written |-> written]

\* setConfig(partial); a headers object in the partial is one the caller has
\* just created, `{}`.
CfgSetConfig ==
  /\ Len(objs) < MaxObjs
  /\ \E keys \in SUBSET StoreFields, val \in Partials(Len(objs) + 1) :
       /\ ("headers" \notin keys) => val.headers = 0
       /\ objs' = IF "headers" \in keys /\ val.headers # 0 THEN Append(objs, "{}") ELSE objs
       /\ cfg' = ConfigManager_setConfig(cfg, keys, val)
       /\ last' = Op("setConfig", keys,
                     [f \in StoreFields |-> IF f \in keys THEN val[f] ELSE last.written[f]])
  /\ UNCHANGED <<inflight, variant, h, nspans, wrapper, env, held, mc>>

\* const snapshot = getConfig()
CfgGetConfig ==
  /\ held' = [held EXCEPT !.taken = TRUE, !.snapshot = ConfigManager_getConfig(cfg)]
  /\ last' = Op("getConfig", {}, last.written)
  /\ UNCHANGED <<inflight, cfg, variant, h, nspans, wrapper, env, objs, mc>>

\* snapshot.enabled = ...; snapshot.endpoint = ...
CfgMutateSnapshot ==
  /\ held.taken
  /\ \E e \in BOOLEAN, u \in Endpoints :
       held' = [held EXCEPT !.snapshot = [@ EXCEPT !.enabled = e, !.endpoint = u]]
  /\ last' = Op("mutateSnapshot", {}, last.written)
  /\ UNCHANGED <<inflight, cfg, variant, h, nspans, wrapper, env, objs, mc>>

\* snapshot.headers['x'] = '2'
CfgMutateHeaders ==
  /\ held.taken /\ held.snapshot.headers # 0
  /\ objs' = [objs EXCEPT ![held.snapshot.headers] = "{x:2}"]
  /\ last' = Op("mutateHeaders", {}, last.written)
  /\ UNCHANGED <<inflight, cfg, variant, h, nspans, wrapper, env, held, mc>>

\* The module's `ConfigManager.getInstance()`: the one store, seeded from the
\* defaults and the environment.
InitConfig ==
  /\ env \in ProcessEnvs
  /\ cfg = loadFromEnvironment(Defaults, env)
  /\ last = Op("none", {}, cfg)
  /\ objs = NoObjs /\ held = [NoHeld EXCEPT !.snapshot = Defaults] /\ mc = NoMetrics /\ inflight = NoTasks
  /\ variant = "none" /\ wrapper = "none" /\ h = NoHandle /\ nspans = 0

NextConfig ==
  \/ CfgSetConfig
  \/ CfgGetConfig
  \/ CfgMutateSnapshot
  \/ CfgMutateHeaders

SpecConfig == InitConfig /\ [][NextConfig]_vars

\* ---------------------------------------------------------------- MetricsCollector (types.ts)
Names == {"a", "b"}
Metric(name, value, type) == [name |-> name, value |-> value, type |-> type]

\* `map.get(k) || 0`
GetOr0(m, k) == IF k \in DOMAIN m THEN m[k] ELSE 0
\* `map.set(k, v)`
MapSet(m, k, v) == [x \in DOMAIN m \cup {k} |-> IF x = k THEN v ELSE m[x]]

\* An addMetric that cuts to the 500 oldest entries.
addMetric_KeepsOldest(c, metric) ==
  LET pushed == Append(c.metrics, metric)
  IN  [c EXCEPT !.metrics = IF Len(pushed) > 1000 THEN SubSeq(pushed, 1, 500) ELSE pushed]

\* addMetric(metric): push, then keep the last 500 once more than 1000 are held.
addMetric(c, metric) ==
  LET pushed == Append(c.metrics, metric)
  IN  [c EXCEPT !.metrics = IF Len(pushed) > 1000
                            THEN SubSeq(pushed, Len(pushed) - 499, Len(pushed))
                            ELSE pushed]

\* A counter that stores the value passed instead of adding it.
MetricsCollector_counter_Overwrites(c, enabled, name, value) ==
  IF ~enabled THEN c
  ELSE addMetric([c EXCEPT !.counters = MapSet(@, name, value)], Metric(name, value, "counter"))

\* counter(name, value = 1)
MetricsCollector_counter(c, enabled, name, value) ==
  IF ~enabled THEN c
  ELSE LET currentValue == GetOr0(c.counters, name)
       IN  addMetric([c EXCEPT !.counters = MapSet(@, name, currentValue + value)],
                     Metric(name, currentValue + value, "counter"))

\* gauge(name, value)
MetricsCollector_gauge(c, enabled, name, value) ==
  IF ~enabled THEN c
  ELSE addMetric([c EXCEPT !.gauges = MapSet(@, name, value)], Metric(name, value, "gauge"))

\* histogram(name, value)
MetricsCollector_histogram(c, enabled, name, value) ==
  IF ~enabled THEN c ELSE addMetric(c, Metric(name, value, "histogram"))

\* startTimer(name): the collector after the call, and the function returned;
\* live is FALSE for the `() => {}` returned while disabled.
MetricsCollector_startTimer(c, enabled, name) ==
  IF ~enabled THEN c ELSE [c EXCEPT !.timers = @ \cup {name}]
StopFunction(enabled, name) == [name |-> name, live |-> enabled]

\* Calling a function startTimer returned (the duration is taken as 0).
CallStop(c, stop) ==
  IF ~stop.live THEN c
  ELSE [addMetric(c, Metric(stop.name, 0, "timer")) EXCEPT !.timers = @ \ {stop.name}]

MetricsCollector_clearMetrics(c) == [c EXCEPT !.metrics = <<>>]
MetricsCollector_getCounterValue(c, name) == GetOr0(c.counters, name)
MetricsCollector_getGaugeValue(c, name) == GetOr0(c.gauges, name)

\* The history kept beside the collector: per name, the sum of the values
\* passed to counter(name, v) while the store was enabled.
MOp(sums) == [sums |-> sums]
Total(c) == GetOr0(c.counters, "a") + GetOr0(c.counters, "b")

\* The lists followed: the short ones, and the ones about to be cut.
Room(c) == Len(c.metrics) < MaxMetrics \/ Len(c.metrics) >= NearFull

MetCounter ==
  \E name \in Names, value \in {1, 2} :
    /\ Room(mc) /\ Total(mc) + value <= MaxCount
    /\ mc' = MetricsCollector_counter(mc, cfg.enabled, name, value)
    /\ last' = MOp(IF cfg.enabled THEN [last.sums EXCEPT ![name] = @ + value] ELSE last.sums)
    /\ UNCHANGED <<inflight, cfg, variant, h, nspans, wrapper, env, objs, held>>

MetGauge ==
  \E name \in {"a"}, value \in {1, 2} :
    /\ Room(mc)
    /\ mc' = MetricsCollector_gauge(mc, cfg.enabled, name, value)
    /\ UNCHANGED <<inflight, last, cfg, variant, h, nspans, wrapper, env, objs, held>>

MetHistogram ==
  /\ Room(mc)
  /\ mc' = MetricsCollector_histogram(mc, cfg.enabled, "a", 1)
  /\ UNCHANGED <<inflight, last, cfg, variant, h, nspans, wrapper, env, objs, held>>

\* const stop = startTimer(name); the caller keeps stop.
MetStartTimer ==
  \E name \in {"a"} :
    /\ mc' = MetricsCollector_startTimer(mc, cfg.enabled, name)
    /\ held' = [held EXCEPT !.stops = @ \cup {StopFunction(cfg.enabled, name)}]
    /\ UNCHANGED <<inflight, last, cfg, variant, h, nspans, wrapper, env, objs>>

\* stop()
MetStop ==
  \E stop \in held.stops :
    /\ Room(mc)
    /\ mc' = CallStop(mc, stop)
    /\ UNCHANGED <<inflight, last, cfg, variant, h, nspans, wrapper, env, objs, held>>

MetClearMetrics ==
  /\ mc' = MetricsCollector_clearMetrics(mc)
  /\ UNCHANGED <<inflight, last, cfg, variant, h, nspans, wrapper, env, objs, held>>

\* otlpConfig.setConfig({ enabled })
MetSetEnabled ==
  \E e \in BOOLEAN :
    /\ cfg' = ConfigManager_setConfig(cfg, {"enabled"}, [Defaults EXCEPT !.enabled = e])
      /\ UNCHANGED <<inflight, last, variant, h, nspans, wrapper, env, objs, held, mc>>

\* `MetricsCollector.getInstance()` beside the store seeded from the environment.
InitMetrics ==
  /\ env \in ProcessEnvs /\ env.OTLP_ENDPOINT = Undef
  /\ cfg = loadFromEnvironment(Defaults, env)
  /\ last = MOp([n \in Names |-> 0])
  /\ objs = NoObjs /\ held = NoHeld /\ mc = NoMetrics /\ inflight = NoTasks
  /\ variant = "none" /\ wrapper = "none" /\ h = NoHandle /\ nspans = 0

NextMetrics ==
  \/ MetCounter
  \/ MetGauge
  \/ MetHistogram
  \/ MetStartTimer
  \/ MetStop
  \/ MetClearMetrics
  \/ MetSetEnabled

SpecMetrics == InitMetrics /\ [][NextMetrics]_vars

\* A collector that histogram("a", -1), histogram("a", -2), ... has filled to
\* the brim, or nearly; the values tell these entries from the ones the
\* actions append, which are never negative.
Filled(n) == [NoMetrics EXCEPT !.metrics = [i \in 1..n |-> Metric("a", 0 - i, "histogram")]]

InitFilled ==
  /\ env \in ProcessEnvs /\ env.OTLP_ENDPOINT = Undef
  /\ cfg = loadFromEnvironment(Defaults, env)
  /\ last = MOp([n \in Names |-> 0])
  /\ objs = NoObjs /\ held = NoHeld /\ inflight = NoTasks
  /\ mc \in {Filled(n) : n \in NearFull..1000}
  /\ variant = "none" /\ wrapper = "none" /\ h = NoHandle /\ nspans = 0

SpecFilled == InitFilled /\ [][NextMetrics]_vars

\* ---------------------------------------------------------------- OTLPLazy: overlapping startSpan calls
\* startSpan passes its guards on a handle that is not initialized and is
\* suspended at the first `await import(...)` of ensureInitialized, behind the
\* calls already suspended there; it has read the configuration.
LazyStartSpanSuspends ==
  /\ variant = "OTLPLazy" /\ h.made /\ ~h.initialized /\ cfg.enabled
  /\ Len(inflight) < MaxInflight
  /\ \E isError \in BOOLEAN :
       /\ cfg.traceOnErrorOnly => isError
       /\ Done("startSpanAwaits", isError, Undef,
               World(OTLPLazy_startSpan_Awaiting(h, cfg), nspans))
  /\ inflight' = Append(inflight, cfg)
  /\ UNCHANGED <<cfg, variant, wrapper, env, objs, held, mc>>

\* The call suspended first runs to its end: past the awaits nothing looks at
\* `initialized` again.
LazyStartSpanContinues ==
  /\ variant = "OTLPLazy" /\ inflight # NoTasks /\ nspans < MaxSpans
  /\ \E fail \in SUBSET StartOps :
       LET w == OTLPLazy_startSpan_Resumed(
                  World([h EXCEPT !.capture = Head(inflight)], nspans), fail)
       IN  Done("startSpanResumed", FALSE, Undef,
                [w EXCEPT !.h.pending = (Len(inflight) > 1)])
  /\ inflight' = Tail(inflight)
  /\ UNCHANGED <<cfg, variant, wrapper, env, objs, held, mc>>

InitOverlap == Init /\ variant = "OTLPLazy"

NextOverlap ==
  \/ SetConfig
  \/ LazyNew
  \/ LazyStartSpanSuspends
  \/ LazyStartSpanContinues
  \/ LazyStartSpan
  \/ LazyEndSpan

SpecOverlap == InitOverlap /\ [][NextOverlap]_vars

\* ---------------------------------------------------------------- OTLPCore (core/otlp-core.ts), initializeOTLP (index.ts)
\* The handle is the module's coreInstance; builtFrom names the configuration
\* its provider was built from (undefined: `provider` is null).
\* initialize(), with c the store as it is after the optional setConfig.
OTLPCore_initialize(w, c, fail) ==
  IF w.h.initialized THEN w
  ELSE IF ~c.enabled THEN w
  ELSE IF "init" \in fail
       THEN [Call(w, Ev("provider", 0, 0, c.serviceName, FALSE)) EXCEPT
               !.h.initialized = FALSE, !.h.initFailed = TRUE]
       ELSE [Call(w, Ev("provider", 0, 0, c.serviceName, TRUE)) EXCEPT
               !.h.tracer = TRUE, !.h.initialized = TRUE, !.h.builtFrom = c.serviceName]

\* createSpan(name): the span handed to the caller is not kept on the core.
OTLPCore_createSpan(w, c, fail) ==
  LET w1 == IF ~w.h.initialized \/ ~w.h.tracer THEN OTLPCore_initialize(w, c, fail) ELSE w
  IN  IF ~w1.h.tracer THEN w1
      ELSE IF "startSpan" \in fail
           THEN [Call(w1, Ev("startSpan", 0, 0, Undef, FALSE)) EXCEPT !.exc = SdkExc]
           ELSE [Call(w1, Ev("startSpan", w1.n + 1, 0, Undef, TRUE)) EXCEPT !.n = w1.n + 1]

\* shutdown(): a throw of provider.shutdown() is swallowed.
OTLPCore_shutdown(w, fail) ==
  IF w.h.builtFrom = Undef THEN w
  ELSE [Call(w, Ev("shutdown", 0, 0, Undef, "shutdown" \notin fail)) EXCEPT
          !.h.initialized = FALSE]

\* initializeOTLP(config) past its imports: setConfig(config), then
\* `await core.initialize()`, which has no await of its own.
CoreInitializeOTLP ==
  /\ variant = "OTLPCore"
  /\ \E e \in BOOLEAN, name \in ServiceNames, fail \in SUBSET {"init"} :
       /\ cfg' = [cfg EXCEPT !.enabled = e, !.serviceName = name]
       /\ Done("initializeOTLP", e, name, OTLPCore_initialize(World(h, nspans), cfg', fail))
  /\ UNCHANGED <<inflight, variant, wrapper, env, objs, held, mc>>

CoreCreateSpan ==
  /\ variant = "OTLPCore" /\ nspans < MaxSpans
  /\ \E fail \in SUBSET StartOps :
       Done("createSpan", FALSE, Undef, OTLPCore_createSpan(World(h, nspans), cfg, fail))
  /\ UNCHANGED <<inflight, cfg, variant, wrapper, env, objs, held, mc>>

CoreShutdown ==
  /\ variant = "OTLPCore"
  /\ \E fail \in SUBSET {"shutdown"} :
       Done("shutdown", FALSE, Undef, OTLPCore_shutdown(World(h, nspans), fail))
  /\ UNCHANGED <<inflight, cfg, variant, wrapper, env, objs, held, mc>>

InitCore ==
  /\ cfg \in InitialConfigs({FALSE})
  /\ variant = "OTLPCore"
  /\ h = [NoHandle EXCEPT !.made = TRUE]
  /\ nspans = 0
  /\ last = NoLast
  /\ wrapper = "none"
  /\ env = NoEnv
  /\ objs = NoObjs /\ held = NoHeld /\ mc = NoMetrics /\ inflight = NoTasks

NextCore ==
  \/ SetConfig
  \/ CoreInitializeOTLP
  \/ CoreCreateSpan
  \/ CoreShutdown

SpecCore == InitCore /\ [][NextCore]_vars

\* ---------------------------------------------------------------- LazyLoader (lazy/loader.ts)
\* The static fields; tracerPromise is a reference into objs (0: null), where
\* a promise is "pending", fulfilled with the "tracer", or "rejected".
NoLoader == [tracerPromise |-> 0, isLoading |-> FALSE]

\* loadTracer() up to its first await or return: the branch it takes.
LazyLoader_loadTracer(ld, c) ==
  IF ~c.enabled THEN "null"
  ELSE IF ld.tracerPromise # 0 THEN "cached"
  ELSE IF ld.isLoading THEN "poll"
  ELSE "create"

\* A suspended caller: the promise it waits for (0: the polling loop) and
\* whether it is the one inside the try block.
Caller(p, creator) == [p |-> p, creator |-> creator]
\* The outcome of a loadTracer call: awaited is the state of the promise the
\* caller waited for.
Loaded(result, awaited, creator) ==
  [NoLast EXCEPT !.op = "loadTracer", !.result = result, !.msg = awaited, !.flag = creator]

\* A caller calls loadTracer().
LoaderCall ==
  /\ variant = "LazyLoader" /\ Len(inflight) < MaxInflight
  /\ LET b == LazyLoader_loadTracer(h, cfg)
     IN  /\ (b = "create") => Len(objs) < MaxObjs
         /\ objs' = IF b = "create" THEN Append(objs, "pending") ELSE objs
         /\ h' = IF b = "create"
                 THEN [tracerPromise |-> Len(objs) + 1, isLoading |-> TRUE] ELSE h
         /\ inflight' = IF b = "null" THEN inflight
                        ELSE IF b = "cached" THEN Append(inflight, Caller(h.tracerPromise, FALSE))
                        ELSE IF b = "poll" THEN Append(inflight, Caller(0, FALSE))
                        ELSE Append(inflight, Caller(Len(objs) + 1, TRUE))
         /\ last' = IF b = "null" THEN Loaded("null", Undef, FALSE)
                    ELSE [NoLast EXCEPT !.op = "loadTracerAwaits"]
  /\ UNCHANGED <<cfg, variant, nspans, wrapper, env, held, mc>>

\* createTracer() settles: the tracer, or a failed import or SDK call.
LoaderCreateSettles ==
  /\ variant = "LazyLoader"
  /\ \E p \in 1..Len(objs), r \in {"tracer", "rejected"} :
       /\ objs[p] = "pending"
       /\ objs' = [objs EXCEPT ![p] = r]
  /\ last' = [NoLast EXCEPT !.op = "createTracer"]
  /\ UNCHANGED <<inflight, cfg, variant, h, nspans, wrapper, env, held, mc>>

\* The suspended callers that can run: their promise has settled, or the
\* polling loop sees isLoading false.
Runnable == {i \in 1..Len(inflight) :
               IF inflight[i].p = 0 THEN ~h.isLoading ELSE objs[inflight[i].p] # "pending"}
Without(q, i) == SubSeq(q, 1, i - 1) \o SubSeq(q, i + 1, Len(q))

\* The creator past `await this.tracerPromise`: return, or catch, then finally.
LazyLoader_creatorResumes(ld, settled) ==
  IF settled = "rejected" THEN [tracerPromise |-> 0, isLoading |-> FALSE]
  ELSE [ld EXCEPT !.isLoading = FALSE]

\* The earliest runnable caller runs to its end. A caller that returned
\* this.tracerPromise settles as that promise does.
LoaderCallerResumes ==
  /\ variant = "LazyLoader" /\ Runnable # {}
  /\ LET i == CHOOSE j \in Runnable : \A k \in Runnable : j <= k
         c == inflight[i]
         settled == IF c.p = 0
                    THEN (IF h.tracerPromise = 0 THEN "null" ELSE objs[h.tracerPromise])
                    ELSE objs[c.p]
     IN  /\ settled # "pending"
         /\ h' = IF c.creator THEN LazyLoader_creatorResumes(h, settled) ELSE h
         /\ last' = Loaded(IF c.creator /\ settled = "rejected" THEN "null" ELSE settled,
                           settled, c.creator)
         /\ inflight' = Without(inflight, i)
  /\ UNCHANGED <<cfg, variant, nspans, wrapper, env, objs, held, mc>>

\* LazyLoader.reset()
LoaderReset ==
  /\ variant = "LazyLoader"
  /\ h' = NoLoader
  /\ last' = [NoLast EXCEPT !.op = "reset"]
  /\ UNCHANGED <<inflight, cfg, variant, nspans, wrapper, env, objs, held, mc>>

InitLoader ==
  /\ cfg \in InitialConfigs({FALSE})
  /\ variant = "LazyLoader"
  /\ h = NoLoader
  /\ nspans = 0
  /\ last = NoLast
  /\ wrapper = "none"
  /\ env = NoEnv
  /\ objs = NoObjs /\ held = NoHeld /\ mc = NoMetrics /\ inflight = NoTasks

NextLoader ==
  \/ SetConfig
  \/ LoaderCall
  \/ LoaderCreateSettles
  \/ LoaderCallerResumes
  \/ LoaderReset

SpecLoader == InitLoader /\ [][NextLoader]_vars

\* ---------------------------------------------------------------- OTLPFull.configure (full/otlp-full.ts)
\* configure(config): setConfig, then, only on a handle that is initialized,
\* shutdown().then(() => initialize()).  The result says whether the
\* continuation was registered; the merged store is the action's cfg'.
OTLPFull_configure(hh) == hh.initialized

\* The same, registering the continuation whatever the handle's state.
OTLPFull_configure_Always(hh) == TRUE

FullConfigure ==
  /\ variant = "OTLPFull" /\ h.made /\ Len(inflight) < MaxInflight
  /\ \E e \in BOOLEAN, s \in ServiceNames :
       /\ cfg' = [cfg EXCEPT !.enabled = e, !.serviceName = s]
       /\ Done("configure", e, s, World(h, nspans))
  /\ inflight' = IF OTLPFull_configure(h) THEN Append(inflight, "initialize") ELSE inflight
  /\ UNCHANGED <<variant, wrapper, env, objs, held, mc>>

\* provider.shutdown() has resolved: the continuation runs initialize(), which
\* reads the store as it is now.
FullConfigureThen ==
  /\ variant = "OTLPFull" /\ inflight # NoTasks
  /\ \E fail \in SUBSET {"init"} :
       Done("configureThen", FALSE, Undef, OTLPFull_initialize(World(h, nspans), cfg, fail))
  /\ inflight' = Tail(inflight)
  /\ UNCHANGED <<cfg, variant, wrapper, env, objs, held, mc>>

InitFull == Init /\ variant = "OTLPFull"

NextFull ==
  \/ SetConfig
  \/ FullNew
  \/ FullConfigure
  \/ FullConfigureThen
  \/ FullStartSpan
  \/ FullEndSpan

\* The continuation of a resolved promise is run by the microtask queue.
SpecFull == InitFull /\ [][NextFull]_vars /\ WF_vars(FullConfigureThen)

\* ---------------------------------------------------------------- the tracer handles: claims
HasEv(log, e, s) == \E i \in 1..Len(log) : log[i].ev = e /\ log[i].span = s
AllOk(log) == \A i \in 1..Len(log) : log[i].ok
SpanOps == {"startSpan", "endSpan", "addAttribute", "addEvent"}
\* The enabled flag and the error-only flag each class reads: OTLP keeps its
\* own config on the instance, the others read the ConfigManager.
TracingEnabled == IF variant = "OTLP" THEN h.enabled ELSE cfg.enabled
ErrorOnly == IF variant = "OTLP" THEN h.traceOnlyErrors ELSE cfg.traceOnErrorOnly

\* C3, as stated: on an OTLPLazy handle, every startSpan, endSpan, addAttribute
\* or addEvent call made while enabled is false makes no SDK call at all and
\* constructs no provider, also when a span was opened earlier.
C3_DisabledCallsMakeNoSdkCall ==
  (variant = "OTLPLazy" /\ ~cfg.enabled /\ last.op \in SpanOps) => last.log = <<>>

\* C3, amended: while enabled is false no call constructs a provider or opens
\* a span; startSpan makes no SDK call and changes nothing; endSpan,
\* addAttribute and addEvent make no SDK call and change nothing when the
\* handle holds no span.
C3_DisabledNoProviderNoNewSpan ==
  (variant = "OTLPLazy" /\ ~cfg.enabled /\ last.op \in SpanOps) =>
     /\ (\A i \in 1..Len(last.log) : last.log[i].ev \notin {"provider", "startSpan"})
     /\ ((last.op = "startSpan" \/ last.pre.currentSpan = 0) =>
           (last.log = <<>> /\ h = last.pre /\ ~Raised(last)))

\* C3's case: startSpan called while disabled on a handle that was initialized
\* and still holds a span from the time tracing was enabled.
C3_Witness ==
  /\ variant = "OTLPLazy" /\ ~cfg.enabled /\ last.op = "startSpan"
  /\ last.pre.initialized /\ last.pre.currentSpan # 0

\* C5: on OTLPLazy, OTLP and OTLPFull with tracing enabled and error-only mode
\* on, a startSpan not flagged as an error creates no span and leaves the held
\* reference unchanged, and a startSpan flagged as an error creates a span and
\* holds it (stated for the calls in which no SDK call threw, on a handle
\* whose provider did not fail to build).
C5_ErrorOnlyGating ==
  (/\ variant \in {"OTLPLazy", "OTLP", "OTLPFull"} /\ last.op = "startSpan"
   /\ TracingEnabled /\ ErrorOnly /\ AllOk(last.log) /\ ~last.pre.initFailed) =>
     IF last.flag
     THEN /\ h.currentSpan # 0 /\ h.currentSpan # last.pre.currentSpan
          /\ HasEv(last.log, "startSpan", h.currentSpan)
     ELSE last.log = <<>> /\ h = last.pre

\* C8: on every variant, an endSpan call made while a span is held calls end()
\* on that span and leaves the handle holding no span, whatever throws.
C8_EndSpanAlwaysEndsAndClears ==
  (last.op = "endSpan" /\ last.pre.currentSpan # 0) =>
     /\ HasEv(last.log, "end", last.pre.currentSpan)
     /\ h.currentSpan = 0

\* C9, first half: endSpan, addAttribute, addEvent and recordError called
\* while no span is held make no SDK call, raise nothing and change nothing.
C9_NoSpanNoOp ==
  (last.op \in {"endSpan", "addAttribute", "addEvent", "recordError"}
     /\ last.pre.currentSpan = 0) =>
       (last.log = <<>> /\ ~Raised(last) /\ h = last.pre)

\* C9, second half: of two endSpan calls in a row the second does nothing.
C9_SecondEndSpanDoesNothing ==
  (last.op = "endSpan" /\ last'.op = "endSpan") =>
     (last'.log = <<>> /\ ~Raised(last') /\ h' = h)

\* C9: both halves.
C9_EndSpanIdempotent == []C9_NoSpanNoOp /\ [][C9_SecondEndSpanDoesNothing]_vars

\* C10: on every variant, endSpan(false, ...) on a held span marks it ERROR
\* with the given message, or with a generic default when the message is absent
\* or empty, and never marks it OK or leaves it unmarked (stated for the calls
\* in which no SDK call threw).
C10_FailureMarksError ==
  (last.op = "endSpan" /\ ~last.flag /\ last.pre.currentSpan # 0 /\ AllOk(last.log)) =>
     /\ \E i \in 1..Len(last.log) :
          /\ last.log[i].ev = "setStatus" /\ last.log[i].span = last.pre.currentSpan
          /\ last.log[i].code = 2
          /\ last.log[i].msg = (IF Truthy(last.msg) THEN last.msg ELSE "Error")
     /\ \A i \in 1..Len(last.log) : last.log[i].ev = "setStatus" => last.log[i].code = 2

\* The provider constructions a handler attempted.
Builds(log) == {i \in 1..Len(log) : log[i].ev = "provider"}
\* A startSpan with this flag passes both guards of OTLPLazy.startSpan.
PassesGuards(flag) == cfg.enabled /\ (cfg.traceOnErrorOnly => flag)

\* C11, a call at a time: on an OTLPLazy handle with no initialization in
\* progress, a startSpan constructs the provider once if it passes the guards
\* and the handle is not initialized, and not at all otherwise.
C11_BuildsOnlyWhenUninitialized ==
  (variant = "OTLPLazy" /\ last.op = "startSpan" /\ ~last.pre.pending) =>
     Cardinality(Builds(last.log)) =
        (IF PassesGuards(last.flag) /\ ~last.pre.initialized THEN 1 ELSE 0)

\* C11, from call to call: an initialized OTLPLazy handle stays initialized
\* under every operation but configure.
C11_StaysInitialized ==
  (variant = "OTLPLazy" /\ h.initialized /\ last'.op # "configure") => h'.initialized

\* C11: on one OTLPLazy handle with tracing enabled, across sequential
\* startSpan calls with no configure in between, the provider is constructed
\* exactly once, by the first call that passes the guards and succeeds, and
\* later calls reuse it.
C11_ProviderBuiltOnce ==
  []C11_BuildsOnlyWhenUninitialized /\ [][C11_StaysInitialized]_vars

\* C11's case: a startSpan on an initialized handle that opens a span on the
\* provider built by an earlier call.
C11_Witness ==
  /\ variant = "OTLPLazy" /\ last.op = "startSpan" /\ last.pre.initialized
  /\ h.currentSpan # 0 /\ HasEv(last.log, "startSpan", h.currentSpan)
  /\ Builds(last.log) = {}

\* The provider constructions of a handler that threw.
FailedBuilds(log) == {i \in Builds(log) : ~log[i].ok}

\* C12: on an OTLPLazy handle with no initialization in progress, a startSpan
\* during which the provider construction throws raises nothing, leaves the
\* handle uninitialized and holding no span, and opens no span; and a
\* startSpan that passes the guards on a handle left uninitialized by such a
\* failure attempts the construction again.
C12_FailedInitIsRetried ==
  (variant = "OTLPLazy" /\ last.op = "startSpan" /\ ~last.pre.pending) =>
     /\ (FailedBuilds(last.log) # {} =>
           /\ ~Raised(last) /\ ~h.initialized /\ h.currentSpan = 0
           /\ \A i \in 1..Len(last.log) : last.log[i].ev # "startSpan")
     /\ ((last.pre.initFailed /\ ~last.pre.initialized /\ PassesGuards(last.flag)) =>
           Builds(last.log) # {})

\* C12's case: the construction threw in an earlier startSpan, and this
\* startSpan tried again and got a provider and a span.
C12_Witness ==
  /\ variant = "OTLPLazy" /\ last.op = "startSpan"
  /\ last.pre.initFailed /\ ~last.pre.initialized
  /\ Builds(last.log) # {} /\ FailedBuilds(last.log) = {}
  /\ h.initialized /\ h.currentSpan # 0

\* C14: every span an OTLPLazy handle starts comes from a provider built from
\* the configuration as the latest configure left it, whether configure found
\* the handle Ready, uninitialized, or in the middle of its first initialization.
C14_SpanFromConfiguredProvider ==
  (/\ variant = "OTLPLazy"
   /\ last.op \in {"startSpan", "startSpanResumed"}
   /\ \E i \in 1..Len(last.log) : last.log[i].ev = "startSpan" /\ last.log[i].ok)
  => h.builtFrom = cfg.serviceName

\* C15: a step of a tracer handle that is not an explicit configuration call
\* (setConfig, configure, a constructor given a configuration) leaves the
\* Configuration Store as it found it; in particular enabled stays false.
C15_TracerStepKeepsStore ==
  [][last'.op \notin {"setConfig", "configure", "new"} => cfg' = cfg]_vars

\* C13: on OTLPLazy, OTLP and OTLPFull, an endSpan, addAttribute, addEvent or
\* recordError call returns normally whatever SDK call throws inside it.
C13_SpanOperationNeverRaises ==
  (/\ variant \in {"OTLPLazy", "OTLP", "OTLPFull"}
   /\ last.op \in {"endSpan", "addAttribute", "addEvent", "recordError"}) => ~Raised(last)

\* ---------------------------------------------------------------- the wrappers: claims
\* No SDK call of the handler threw.
SdkOk(log) == \A i \in 1..Len(log) : log[i].ev \notin {"work", "callback"} => log[i].ok
\* Where in the handler's calls the work was invoked (0: it was not).
WorkAt(log) ==
  IF \E i \in 1..Len(log) : log[i].ev = "work"
  THEN CHOOSE i \in 1..Len(log) : log[i].ev = "work" ELSE 0
\* Span s was marked with code and msg at some call after position i, and
\* ended after that.
MarkedAndEndedAfter(log, s, i, code, msg) ==
  \E a \in 1..Len(log), b \in 1..Len(log) :
    /\ i < a /\ a < b
    /\ log[a].ev = "setStatus" /\ log[a].span = s /\ log[a].code = code /\ log[a].msg = msg
    /\ log[b].ev = "end" /\ log[b].span = s
\* The ConfigManager says: trace every call / trace failing calls only.
AlwaysTrace == cfg.enabled /\ ~cfg.traceOnErrorOnly
\* A call whose user callbacks, if any, returned and whose timer did not fire.
PlainCall ==
  /\ last.op = "call" /\ ~last.opts.timedOut
  /\ last.opts.onSuccess # "throws" /\ last.opts.onError # "throws"

\* C1: for index.ts withTrace, Trace, trace, traceOnError, decorators/withTrace,
\* lazyTrace and lazyTraceOnError, a call whose work throws E rejects with
\* exactly E, with tracing enabled or disabled and whatever SDK call throws.
C1_WrapperRethrowsExactly ==
  (/\ wrapper \in {"withTrace", "Trace", "trace", "traceOnError", "decorators/withTrace",
                   "lazyTrace", "lazyTraceOnError"}
   /\ PlainCall /\ last.work.k = "throw") => last.exc = last.work.e

\* C2: for index.ts withTrace and decorators/withTrace with tracing enabled, a
\* call whose work completes with v resolves with v, also when JSON.stringify,
\* the onSuccess callback or an SDK call fails.
C2_TelemetryFailureKeepsResult ==
  (/\ wrapper \in {"withTrace", "decorators/withTrace"}
   /\ last.op = "call" /\ cfg.enabled /\ last.work.k = "ret") =>
     (~Raised(last) /\ last.result = last.work.v)

\* C4: with tracing enabled and traceOnErrorOnly set, for index.ts withTrace,
\* Trace, decorators/withTrace and OTLPLazy.trace, a call whose work throws an
\* error with message m has no span before the throw and exactly one span
\* after it, marked ERROR with m and ended, and the error is re-thrown (stated
\* for the calls in which no SDK call threw).
C4_ErrorOnlySpanAfterThrow ==
  (/\ wrapper \in {"withTrace", "Trace", "decorators/withTrace", "OTLPLazy.trace"}
   /\ PlainCall /\ last.opts.condition /\ cfg.enabled /\ cfg.traceOnErrorOnly
   /\ last.work.k = "throw" /\ last.work.e.kind = "Error" /\ Truthy(last.work.e.msg)
   /\ SdkOk(last.log)) =>
     LET log == last.log
         at == WorkAt(log)
         opened == {i \in 1..Len(log) : log[i].ev = "startSpan"}
     IN  /\ \A i \in opened : i > at
         /\ Cardinality(opened) = 1
         /\ \A i \in opened :
              MarkedAndEndedAfter(log, log[i].span, i, 2, last.work.e.msg)
         /\ last.exc = last.work.e

\* C6: in always-trace mode, for index.ts withTrace, trace and advancedTrace,
\* the span is started before the work is invoked and, when the work
\* completes, is marked OK and ended before the result is returned (stated
\* for the calls in which nothing but the work ran into trouble: no SDK call
\* threw, the result could be stringified, the instance was ready).
C6_SpanStartedBeforeWork ==
  (/\ wrapper \in {"withTrace", "trace", "advancedTrace"}
   /\ PlainCall /\ AlwaysTrace /\ last.work.k = "ret" /\ last.work.v = "value"
   /\ SdkOk(last.log)
   /\ (wrapper \in OnModuleInstance => last.pre.initialized /\ last.pre.enabled)
   /\ ~last.pre.initFailed) =>
     LET log == last.log
         at == WorkAt(log)
     IN  /\ \E i \in 1..Len(log) :
              /\ log[i].ev = "startSpan" /\ i < at
              /\ MarkedAndEndedAfter(log, log[i].span, at, 1, Undef)
         /\ ~Raised(last) /\ last.result = last.work.v

\* C7: in always-trace mode, for Trace, OTLPLazy.trace and AdvancedTrace, when
\* the work throws an error with message m, the span opened before the work is
\* marked ERROR with m and ended before the error is re-thrown (stated for the
\* calls in which no SDK call threw).
C7_OpenSpanMarkedErrorAndEnded ==
  (/\ wrapper \in {"Trace", "OTLPLazy.trace", "AdvancedTrace"}
   /\ PlainCall /\ AlwaysTrace
   /\ last.work.k = "throw" /\ last.work.e.kind = "Error" /\ Truthy(last.work.e.msg)
   /\ SdkOk(last.log)) =>
     LET log == last.log
         at == WorkAt(log)
     IN  /\ \E i \in 1..Len(log) :
              /\ log[i].ev = "startSpan" /\ i < at
              /\ MarkedAndEndedAfter(log, log[i].span, at, 2, last.work.e.msg)
         /\ last.exc = last.work.e
\* The spans the last call opened, and the end() calls made on span s.
Opened(log) == {log[i].span : i \in {j \in 1..Len(log) : log[j].ev = "startSpan" /\ log[j].ok}}
EndsOf(log, s) == {i \in 1..Len(log) : log[i].ev = "end" /\ log[i].span = s}

\* C16: when a call of index.ts withTrace, of an OTLPLazy.trace method or of a
\* lazyTrace method has returned or thrown, end() has been called exactly once
\* on every span the call opened; no SDK call failed during the call.
C16_OpenedSpansEndedOnce ==
  (/\ last.op = "call" /\ wrapper \in {"withTrace", "OTLPLazy.trace", "lazyTrace"}
   /\ SdkOk(last.log)) =>
    \A s \in Opened(last.log) : Cardinality(EndsOf(last.log, s)) = 1

\* C17: when a lazyTrace method whose work calls another lazyTrace method of
\* the same instance has settled, and no SDK call failed, each of the two
\* invocations has had its own span ended exactly once.
C17_NestedSpansEachEndedOnce ==
  (/\ last.op = "call" /\ wrapper = "lazyTrace" /\ last.opts.inner # "none"
   /\ SdkOk(last.log)) =>
    \A s \in Opened(last.log) : Cardinality(EndsOf(last.log, s)) = 1

\* The last call raced its work against a timer, and the timer fired first.
TimerWon ==
  /\ last.op = "call" /\ last.opts.timedOut /\ last.opts.inner = "none"
  /\ \/ wrapper = "advancedTrace"
     \/ wrapper = "lazyTraceAdvanced" /\ last.opts.condition
     \/ wrapper = "lazyTrace" /\ last.opts.condition /\ h.made

C18_TimeoutRejectsAndEndsSpan ==
  (TimerWon /\ SdkOk(last.log)) =>
    /\ last.exc = TimeoutErr
    /\ \A s \in Opened(last.log) :
         /\ Cardinality(EndsOf(last.log, s)) = 1
         /\ \E i \in 1..Len(last.log) :
              last.log[i].ev = "setStatus" /\ last.log[i].span = s /\ last.log[i].code = 2

C18_LateSettlementChangesNothing ==
  (TimerWon /\ last'.op = "call") =>
    /\ last'.exc = last.exc /\ last'.log = last.log
    /\ h' = h /\ nspans' = nspans

\* C18: when the timer of lazyTrace, lazyTraceAdvanced or advancedTrace fires
\* before the work settles (and no SDK call fails), the call rejects with the
\* timeout error, every span it opened is marked ERROR and ended once, and the
\* work settling later changes neither the outcome nor the spans.
C18_TimeoutIsTracedAsError ==
  []C18_TimeoutRejectsAndEndsSpan /\ [][C18_LateSettlementChangesNothing]_vars

\* The work was invoked once and the caller got the work's own outcome.
WorkRunOnce(log) == Cardinality({i \in 1..Len(log) : log[i].ev = "work"}) = 1
OwnOutcome ==
  IF last.work.k = "ret" THEN ~Raised(last) /\ last.result = last.work.v
  ELSE last.exc = last.work.e
\* Tracer handles constructed during the last call.
Constructed(log) == {i \in 1..Len(log) : log[i].ev = "new"}

\* C19: while the store says enabled = false, a call of index.ts withTrace,
\* Trace, AdvancedTrace, decorators/withTrace or lazyTrace runs the work once,
\* gives the caller the work's result or error, and constructs neither a
\* tracer handle nor a provider (calls whose timer does not fire first).
C19_DisabledWrappersAreTransparent ==
  (/\ last.op = "call" /\ ~cfg.enabled /\ ~last.opts.timedOut
   /\ wrapper \in {"withTrace", "Trace", "AdvancedTrace", "decorators/withTrace", "lazyTrace"})
  => /\ WorkRunOnce(last.log) /\ OwnOutcome
     /\ Constructed(last.log) = {} /\ Builds(last.log) = {}

\* The last call went through an error-only wrapper.
ErrorOnlyCall ==
  /\ last.op = "call"
  /\ \/ wrapper \in {"traceOnError", "lazyTraceOnError"}
     \/ wrapper = "lazyTraceAdvanced" /\ last.opts.traceOnlyOnError
     \/ wrapper = "decorators/withTrace" /\ cfg.traceOnErrorOnly

\* C20: a call of traceOnError, lazyTraceOnError, lazyTraceAdvanced with
\* traceOnlyOnError, or decorators/withTrace under traceOnErrorOnly, whose work
\* returns (before any timer) constructs no tracer handle, builds no provider
\* and makes no SDK call: the handle is as the call found it, so a handle can
\* first appear only in a call whose work failed.
C20_SuccessfulCallTouchesNoTracer ==
  (ErrorOnlyCall /\ last.work.k = "ret" /\ ~last.opts.timedOut) =>
    /\ \A i \in 1..Len(last.log) : last.log[i].ev \in {"work", "callback"}
    /\ h = last.pre
    /\ ~Raised(last) /\ last.result = last.work.v

\* A successful call on an instance whose error tracer an earlier failing call
\* created and initialized.
C20_Witness ==
  /\ ErrorOnlyCall /\ wrapper = "lazyTraceOnError"
  /\ last.work.k = "ret" /\ last.pre.made /\ last.pre.initialized

\* The last call was of lazyTraceOnError or lazyTraceAdvanced, and its work threw
\* (before any timer).
FilteredCall ==
  /\ last.op = "call" /\ wrapper \in {"lazyTraceOnError", "lazyTraceAdvanced"}
  /\ last.opts.condition /\ ~last.opts.timedOut /\ last.work.k = "throw"

\* C21: under lazyTraceOnError and lazyTraceAdvanced, an error the errorFilter
\* rejects is re-thrown with no tracer handle constructed, no span started and
\* onError not called; an error it accepts is re-thrown too, after a span was
\* started for it whenever a tracer handle is there and the SDK works.
C21_ErrorFilterDecidesTracing ==
  FilteredCall =>
    /\ last.exc = last.work.e
    /\ ~last.opts.errorFilter =>
         \A i \in 1..Len(last.log) : last.log[i].ev = "work"
    /\ (last.opts.errorFilter /\ SdkOk(last.log) /\ (h.made \/ Constructed(last.log) # {})) =>
         Opened(last.log) # {}

\* The two lazyTrace decorators, which keep their tracer on the instance.
LazyTraceCall ==
  last.op = "call" /\ wrapper \in {"lazyTrace", "lazy-trace/lazyTrace"}

\* The handle appears only in a call, which constructs it, once.
C22_HandleMadeInACall ==
  (wrapper' \in {"lazyTrace", "lazy-trace/lazyTrace"} /\ ~h.made /\ h'.made) =>
    last'.op = "call" /\ Cardinality(Constructed(last'.log)) = 1
\* A call on an instance that has a handle constructs none and keeps it.
C22_HandleReused ==
  LazyTraceCall => Cardinality(Constructed(last.log)) <= 1
                   /\ (last.pre.made => h.made /\ Constructed(last.log) = {})

\* C22: an instance with lazyTrace methods (of lazy-decorators.ts or of
\* lazy-trace.ts) has no tracer handle until a call constructs it, and every
\* later call reuses that handle: none constructs a second one.
C22_TracerConstructedOnce ==
  []C22_HandleReused /\ [][C22_HandleMadeInACall]_vars

\* A call on an instance whose handle an earlier call constructed and initialized.
C22_Witness ==
  LazyTraceCall /\ last.pre.made /\ last.pre.initialized /\ Opened(last.log) # {}

\* C23: a call of a lazy-trace.ts lazyTrace method on an instance that has no
\* tracer handle and whose shouldTrace() returns false runs the method once,
\* gives its outcome to the caller, and creates no tracer handle.
C23_ShouldTraceFalseCreatesNothing ==
  (/\ last.op = "call" /\ wrapper = "lazy-trace/lazyTrace"
   /\ ~last.opts.shouldTrace /\ ~last.pre.made) =>
    /\ WorkRunOnce(last.log) /\ OwnOutcome
    /\ ~h.made /\ Constructed(last.log) = {}

\* Such a call, made after the store was set to enabled.
C23_Witness ==
  /\ last.op = "call" /\ wrapper = "lazy-trace/lazyTrace" /\ cfg.enabled
  /\ ~last.opts.shouldTrace /\ ~last.pre.made /\ last.work.k = "ret"

\* C24: a lazy-trace.ts lazyTrace call runs the method exactly once and gives
\* the caller the method's own result or error, whichever of the tracer's
\* construction, startSpan, addEvent and endSpan throw.
C24_TracerThrowsStayInside ==
  (last.op = "call" /\ wrapper = "lazy-trace/lazyTrace") =>
    WorkRunOnce(last.log) /\ OwnOutcome

\* A call whose startSpan or endSpan throws, on an instance
\* that has its tracer, and whose method returns.
C24_Witness ==
  /\ last.op = "call" /\ wrapper = "lazy-trace/lazyTrace" /\ h.made
  /\ {"startSpan", "endSpan"} \cap last.opts.thrown # {} /\ last.work.k = "ret"

\* ---------------------------------------------------------------- the configuration store: claims
\* C25: after any sequence of setConfig calls, getConfig() returns for each
\* field the value of the most recent setConfig that supplied it, and the
\* seeded value (the defaults overlaid by the environment) for a field no
\* setConfig supplied; fields absent from a setConfig keep their value.
C25_LatestSuppliedValueWins == ConfigManager_getConfig(cfg) = last.written

\* A setConfig that supplied enabled and left out endpoint, after an earlier
\* one had set the endpoint.
C25_Witness ==
  /\ last.op = "setConfig" /\ "enabled" \in last.keys /\ "endpoint" \notin last.keys
  /\ cfg.endpoint = "url" /\ cfg.enabled # (env.OTLP_ENABLED = "true")

\* C26: what getConfig() returned is independent of the store: assigning to
\* the returned object or to entries of its headers map changes nothing a
\* later getConfig() shows, and a later setConfig changes nothing the earlier
\* snapshot shows.
C26_SnapshotIndependentOfStore ==
  [][/\ last'.op \in {"mutateSnapshot", "mutateHeaders"}
        => Reading(ConfigManager_getConfig(cfg'), objs') = Reading(ConfigManager_getConfig(cfg), objs)
     /\ (last'.op = "setConfig" /\ held.taken)
        => Reading(held'.snapshot, objs') = Reading(held.snapshot, objs)]_vars

\* ---------------------------------------------------------------- the metrics collector: claims
\* C27: while the store's enabled is false, no operation on the collector,
\* a stop function returned by startTimer included, appends a metric or
\* changes a counter or a gauge.
C27_DisabledRecordsNothing ==
  [][~cfg.enabled => /\ mc'.metrics \in {mc.metrics, <<>>}
                     /\ mc'.counters = mc.counters
                     /\ mc'.gauges = mc.gauges]_vars

\* C28: getCounterValue(name) is the sum of the values passed to
\* counter(name, v) while enabled, 0 if there were none, after any sequence
\* of operations, clearMetrics included.
C28_CounterValueIsSum ==
  \A n \in Names : MetricsCollector_getCounterValue(mc, n) = last.sums[n]

\* clearMetrics after a counter was raised twice, and after a counter call
\* that was ignored.
C28_Witness ==
  /\ last.sums["a"] = 3 /\ mc.metrics = <<>> /\ ~cfg.enabled
  /\ MetricsCollector_getCounterValue(mc, "a") = 3

\* ---------------------------------------------------------------- OTLPFull and OTLPLazy handles: claims
\* An OTLPFull whose constructor found the store disabled: initialize()
\* returned before its try block, so it neither succeeded nor failed.
FullMadeDisabled == variant = "OTLPFull" /\ h.made /\ ~h.initialized /\ ~h.initFailed

\* C29: an OTLPFull constructed while enabled is false is not ready and has
\* built no provider, and on it startSpan, addAttribute and endSpan do
\* nothing, whatever the store says later.
C29_FullMadeDisabledStaysInert ==
  /\ (variant = "OTLPFull" /\ last.op = "new" /\ ~cfg.enabled)
       => FullMadeDisabled /\ last.log = <<>>
  /\ FullMadeDisabled
       => /\ ~OTLPFull_isReady(h) /\ ~h.tracer /\ h.currentSpan = 0
          /\ last.op \in {"startSpan", "addAttribute", "endSpan"}
               => last.log = <<>> /\ last.exc = NoExc /\ h = last.pre

\* startSpan on such a handle after the store was enabled.
C29_Witness ==
  FullMadeDisabled /\ last.op = "startSpan" /\ cfg.enabled /\ ~cfg.traceOnErrorOnly

\* The spans a step created.
NewSpans == (nspans + 1)..nspans'
StartedIn(log) == \E i \in 1..Len(log) : log[i].ev = "startSpan" /\ log[i].ok

BuiltIn(log) == \E i \in 1..Len(log) : log[i].ev = "provider" /\ log[i].ok

\* C31: when startSpan calls on one OTLPLazy handle overlap, the provider is
\* constructed and registered at most once for the handle: no call builds a
\* provider on a handle that is already initialized.
C31_ProviderBuiltOnce ==
  [][(variant = "OTLPLazy" /\ BuiltIn(last'.log)) => ~h.initialized]_vars

\* C32: on an OTLP (otlp.ts) constructed with enabled = true, every startSpan
\* that passes the error-only guard creates a span and holds it, a call made
\* right after the constructor returned included (stated for the calls in
\* which the SDK did not throw, on a handle whose provider did not fail to
\* build).
C32_EagerStartSpanCreatesSpan ==
  (/\ variant = "OTLP" /\ last.op = "startSpan"
   /\ last.pre.enabled /\ (last.pre.traceOnlyErrors => last.flag)
   /\ AllOk(last.log) /\ ~last.pre.initFailed) =>
     /\ h.currentSpan # 0 /\ h.currentSpan # last.pre.currentSpan
     /\ StartedIn(last.log)

\* C33: a call of a method wrapped by advancedTrace or AdvancedTrace with
\* retryOnError set always settles after finitely many invocations of the
\* method, each invocation settling, also when every invocation fails.
C33_RetryingCallSettles == (inflight # NoTasks) ~> (inflight = NoTasks)

\* C34: OTLPCore.createSpan called while the store's enabled is false hands
\* out the no-op span object (span: null) and constructs no provider, also
\* on a core initialized earlier while enabled, and after shutdown().
C34_DisabledCreateSpanIsNoOp ==
  (variant = "OTLPCore" /\ last.op = "createSpan" /\ ~cfg.enabled) =>
     /\ ~StartedIn(last.log)
     /\ Builds(last.log) = {}

\* C37: after initializeOTLP(c) with c.enabled = true has resolved, the shared
\* core is initialized with a provider built from c's service identity, also
\* when initializeOTLP was called before with another configuration (stated
\* for the calls in which the SDK did not throw).
C37_InitializeOTLPAppliesConfig ==
  (variant = "OTLPCore" /\ last.op = "initializeOTLP" /\ last.flag /\ AllOk(last.log)) =>
     h.initialized /\ h.builtFrom = last.msg

\* C35: LazyLoader.loadTracer never rejects: every caller of a load whose
\* creation succeeded resolves to the tracer, and every caller of a load
\* whose creation failed resolves to null, with the failed promise no longer
\* cached.
C35_LoadTracerNeverRejects ==
  (variant = "LazyLoader" /\ last.op = "loadTracer") =>
     /\ last.result # "rejected"
     /\ last.msg = "tracer" => last.result = "tracer"
     /\ last.msg = "rejected" =>
          /\ last.result = "null"
          /\ h.tracerPromise = 0 \/ objs[h.tracerPromise] # "rejected"

\* C36: after OTLPFull.configure(c) with c.enabled = true the handle
\* eventually is ready with a provider built from the merged configuration,
\* whatever its state before; unless the store is disabled again or building
\* the provider throws.
C36_ConfigureEnabledGetsReady ==
  (variant = "OTLPFull" /\ last.op = "configure" /\ last.flag)
    ~> (\/ OTLPFull_isReady(h) /\ h.builtFrom = cfg.serviceName
        \/ ~cfg.enabled
        \/ h.initFailed)

\* C38: the metrics list never holds more than 1000 entries after an
\* operation, and an append to a list of 1000 leaves the 500 most recent
\* entries, the appended one last, in their original order.
C38_MetricsListIsCut ==
  [][/\ Len(mc.metrics) <= 1000 => Len(mc'.metrics) <= 1000
     /\ (Len(mc.metrics) = 1000 /\ mc'.metrics \notin {mc.metrics, <<>>})
          => /\ Len(mc'.metrics) = 500
             /\ \A i \in 1..499 : mc'.metrics[i] = mc.metrics[501 + i]
             /\ mc'.metrics[500].value >= 0]_vars

\* A list of 1000 has just been cut: the entry that was 502nd is now first.
C38_Witness ==
  /\ Len(mc.metrics) = 500
  /\ mc.metrics[1] = Metric("a", 0 - 502, "histogram")
  /\ mc.metrics[499] = Metric("a", 0 - 1000, "histogram")
  /\ mc.metrics[500].value >= 0

====
